---------------------------- MODULE Spec2Model ----------------------------
(*************************************************************************)
(* pdftk (frankieliu/pdftk): the page-range parser (parser.py) and the   *)
(* three assembly operations cat, rotate and shuffle (core.py).          *)
(*                                                                       *)
(* Text is modelled as sequences of one-character strings, so that the   *)
(* parser's prefix/suffix stripping, splitting and int() conversion are  *)
(* computed the way the code computes them.  A PdfReader is modelled by  *)
(* the key it is stored under, its page count, and the /Rotate value of  *)
(* each of its page objects (page.rotate mutates the reader's page       *)
(* object in place; PdfWriter.add_page stores a copy of the page as it   *)
(* is at that moment).                                                   *)
(*************************************************************************)
EXTENDS Integers, Sequences, FiniteSets, TLC

(*************************************************************************)
(* Bounds of the model                                                   *)
(*************************************************************************)
MaxPages == 3
MaxRanges == 2

(*************************************************************************)
(* Characters and text helpers                                           *)
(*************************************************************************)
Letters == <<"A", "B", "C", "D", "E", "F", "G", "H", "I", "J", "K", "L", "M",
             "N", "O", "P", "Q", "R", "S", "T", "U", "V", "W", "X", "Y", "Z">>

Upper == {Letters[i] : i \in 1..26}

LetterOrd(c) == CHOOSE i \in 1..26 : Letters[i] = c

\* Python's str < str on texts of upper-case letters
RECURSIVE StrLess(_, _)
StrLess(a, b) ==
    IF b = <<>> THEN FALSE
    ELSE IF a = <<>> THEN TRUE
    ELSE IF Head(a) = Head(b) THEN StrLess(Tail(a), Tail(b))
    ELSE LetterOrd(Head(a)) < LetterOrd(Head(b))

\* sorted(keys)
RECURSIVE Sorted(_)
Sorted(S) ==
    IF S = {} THEN <<>>
    ELSE LET m == CHOOSE x \in S : \A y \in S \ {x} : StrLess(x, y)
         IN <<m>> \o Sorted(S \ {m})

Digits == <<"0", "1", "2", "3", "4", "5", "6", "7", "8", "9">>

IsDigit(c) == \E i \in 1..10 : Digits[i] = c

DigitVal(c) == (CHOOSE i \in 1..10 : Digits[i] = c) - 1

Whitespace == {" "}

\* str.endswith(suf)
EndsWith(s, suf) ==
    /\ Len(s) >= Len(suf)
    /\ SubSeq(s, Len(s) - Len(suf) + 1, Len(s)) = suf

\* s[:-n] for 0 < n <= len(s)
DropLast(s, n) == SubSeq(s, 1, Len(s) - n)

\* s[n:]
DropFirst(s, n) == SubSeq(s, n + 1, Len(s))

\* index of the first occurrence of character c in s, 0 when absent
RECURSIVE IndexOf(_, _, _)
IndexOf(s, c, i) ==
    IF i > Len(s) THEN 0
    ELSE IF s[i] = c THEN i
    ELSE IndexOf(s, c, i + 1)

\* str.split() without arguments: runs of whitespace separate the parts,
\* and no empty part is produced
RECURSIVE SplitWs(_, _, _)
SplitWs(s, cur, acc) ==
    IF s = <<>> THEN (IF cur = <<>> THEN acc ELSE Append(acc, cur))
    ELSE IF Head(s) \in Whitespace
         THEN SplitWs(Tail(s), <<>>, IF cur = <<>> THEN acc ELSE Append(acc, cur))
         ELSE SplitWs(Tail(s), Append(cur, Head(s)), acc)

Split(s) == SplitWs(s, <<>>, <<>>)

\* value of a non-empty run of decimal digits
RECURSIVE DigitsVal(_)
DigitsVal(s) ==
    IF s = <<>> THEN 0
    ELSE DigitsVal(DropLast(s, 1)) * 10 + DigitVal(s[Len(s)])

AllDigits(s) == s # <<>> /\ \A i \in 1..Len(s) : IsDigit(s[i])

\* Python int(s) on text without blanks: an optional sign, then digits;
\* anything else raises ValueError
IntOk(s) ==
    IF s # <<>> /\ s[1] \in {"+", "-"} THEN AllDigits(Tail(s)) ELSE AllDigits(s)

IntVal(s) ==
    IF s[1] = "-" THEN 0 - DigitsVal(Tail(s))
    ELSE IF s[1] = "+" THEN DigitsVal(Tail(s))
    ELSE DigitsVal(s)

(*************************************************************************)
(* parser.py                                                             *)
(*************************************************************************)
None == <<>>

PageSpec(h, p, r) == [handle |-> h, pages |-> p, rotation |-> r]

Ok(v) == [ok |-> TRUE, val |-> v]

Raise(kind, h) == [ok |-> FALSE, err |-> [kind |-> kind, handle |-> h]]

\* mutant of ROTATIONS: left is stored as 270 instead of -90
ROTATIONS_leftIs270 ==
    << [kw |-> <<"n", "o", "r", "t", "h">>, deg |-> 0],
       [kw |-> <<"e", "a", "s", "t">>,      deg |-> 90],
       [kw |-> <<"s", "o", "u", "t", "h">>, deg |-> 180],
       [kw |-> <<"w", "e", "s", "t">>,      deg |-> 270],
       [kw |-> <<"l", "e", "f", "t">>,      deg |-> 270],
       [kw |-> <<"r", "i", "g", "h", "t">>, deg |-> 90],
       [kw |-> <<"d", "o", "w", "n">>,      deg |-> 180] >>

\* PageRangeParser.ROTATIONS, in the dict's insertion order
ROTATIONS ==
    << [kw |-> <<"n", "o", "r", "t", "h">>, deg |-> 0],
       [kw |-> <<"e", "a", "s", "t">>,      deg |-> 90],
       [kw |-> <<"s", "o", "u", "t", "h">>, deg |-> 180],
       [kw |-> <<"w", "e", "s", "t">>,      deg |-> 270],
       [kw |-> <<"l", "e", "f", "t">>,      deg |-> 0 - 90],
       [kw |-> <<"r", "i", "g", "h", "t">>, deg |-> 90],
       [kw |-> <<"d", "o", "w", "n">>,      deg |-> 180] >>

\* PageRangeParser.__init__: the parser's default reader
ParserDefault(readers, default_reader) ==
    IF default_reader = None /\ Cardinality(readers) = 1
    THEN CHOOSE h \in readers : TRUE
    ELSE default_reader

\* the handle prefix of a token: the maximal leading run of [A-Z]
RECURSIVE UpperRun(_, _)
UpperRun(part, i) ==
    IF i <= Len(part) /\ part[i] \in Upper THEN UpperRun(part, i + 1) ELSE i - 1

\* mutant of ExtractHandle: the handle is the first upper-case letter only
ExtractHandle_firstLetter(part) ==
    IF part # <<>> /\ part[1] \in Upper THEN <<part[1]>> ELSE None

ExtractHandle(part) ==
    IF part # <<>> /\ part[1] \in Upper
    THEN SubSeq(part, 1, UpperRun(part, 1))
    ELSE None

\* index in ROTATIONS of the first keyword the text ends with, 0 if none
RECURSIVE RotationIndex(_, _)
RotationIndex(remaining, i) ==
    IF i > Len(ROTATIONS) THEN 0
    ELSE IF EndsWith(remaining, ROTATIONS[i].kw) THEN i
    ELSE RotationIndex(remaining, i + 1)

\* _get_reader
GetReader(handle, readers, dflt) ==
    IF handle # None
    THEN (IF handle \in readers THEN handle ELSE None)
    ELSE dflt

\* mutant of ResolvePageNumber: a plain number is clamped to 1..total_pages
ResolvePageNumber_clamped(spec, total_pages) ==
    IF spec = <<"e", "n", "d">> THEN Ok(total_pages)
    ELSE IF spec = <<"r", "e", "n", "d">> THEN Ok(1)
    ELSE IF spec # <<>> /\ spec[1] = "r"
         THEN (IF IntOk(Tail(spec))
               THEN Ok(total_pages - IntVal(Tail(spec)) + 1)
               ELSE Raise("InvalidPageToken", None))
    ELSE IF IntOk(spec)
         THEN Ok(IF IntVal(spec) < 1 THEN 1
                 ELSE IF IntVal(spec) > total_pages THEN total_pages
                 ELSE IntVal(spec))
    ELSE Raise("InvalidPageToken", None)

\* mutant of ResolvePageNumber: r<N> counts from the page before the last
ResolvePageNumber_rOffByOne(spec, total_pages) ==
    IF spec = <<"e", "n", "d">> THEN Ok(total_pages)
    ELSE IF spec = <<"r", "e", "n", "d">> THEN Ok(1)
    ELSE IF spec # <<>> /\ spec[1] = "r"
         THEN (IF IntOk(Tail(spec))
               THEN Ok(total_pages - IntVal(Tail(spec)))
               ELSE Raise("InvalidPageToken", None))
    ELSE IF IntOk(spec) THEN Ok(IntVal(spec))
    ELSE Raise("InvalidPageToken", None)

\* _resolve_page_number
ResolvePageNumber(spec, total_pages) ==
    IF spec = <<"e", "n", "d">> THEN Ok(total_pages)
    ELSE IF spec = <<"r", "e", "n", "d">> THEN Ok(1)
    ELSE IF spec # <<>> /\ spec[1] = "r"
         THEN (IF IntOk(Tail(spec))
               THEN Ok(total_pages - IntVal(Tail(spec)) + 1)
               ELSE Raise("InvalidPageToken", None))
    ELSE IF IntOk(spec) THEN Ok(IntVal(spec))
    ELSE Raise("InvalidPageToken", None)

\* mutant of PageRange: range(start, end + 1) whatever the order of the
\* endpoints, which is empty when start > end
PageRange_ascending(start, end) ==
    [i \in 1..(end - start + 1) |-> start + i - 1]

\* list(range(start, end + 1)) or list(range(start, end - 1, -1))
PageRange(start, end) ==
    IF start <= end
    THEN [i \in 1..(end - start + 1) |-> start + i - 1]
    ELSE [i \in 1..(start - end + 1) |-> start - i + 1]

\* _parse_page_spec
ParsePageSpec(spec, handle, readers, dflt, count) ==
    IF spec = <<>> THEN Ok(<<>>)
    ELSE LET reader == GetReader(handle, readers, dflt) IN
         IF reader = None THEN Raise("NoReader", handle)
         ELSE LET total_pages == count[reader]
                  dash == IndexOf(spec, "-", 1)
              IN IF dash > 0
                 THEN LET start == ResolvePageNumber(SubSeq(spec, 1, dash - 1), total_pages)
                          end == ResolvePageNumber(DropFirst(spec, dash), total_pages)
                      IN IF ~start.ok THEN start
                         ELSE IF ~end.ok THEN end
                         ELSE Ok(PageRange(start.val, end.val))
                 ELSE LET page == ResolvePageNumber(spec, total_pages)
                      IN IF ~page.ok THEN page ELSE Ok(<<page.val>>)

\* the list comprehension [p for p in pages if keep(p)]
RECURSIVE FilterPages(_, _)
FilterPages(pages, r) ==
    IF pages = <<>> THEN <<>>
    ELSE IF Head(pages) % 2 = r
         THEN <<Head(pages)>> \o FilterPages(Tail(pages), r)
         ELSE FilterPages(Tail(pages), r)

\* mutant of ApplyQualifier: the qualifier selects by position in the list
\* instead of by page number
ApplyQualifier_byPosition(pages, qualifier) ==
    LET at(r) == {j \in 1..Len(pages) : j % 2 = r}
        pick(r) == [k \in 1..Cardinality(at(r)) |-> pages[2 * k - r]]
    IN IF qualifier = "even" THEN pick(0)
       ELSE IF qualifier = "odd" THEN pick(1)
       ELSE pages

\* _apply_qualifier
ApplyQualifier(pages, qualifier) ==
    IF qualifier = "even" THEN FilterPages(pages, 0)
    ELSE IF qualifier = "odd" THEN FilterPages(pages, 1)
    ELSE pages

\* _handle_only
HandleOnly(handle, readers, count) ==
    IF handle \notin readers THEN Raise("UnknownHandle", handle)
    ELSE Ok(PageSpec(handle, [i \in 1..count[handle] |-> i], 0))

\* mutant of ParseSingle: the qualifier is stripped before the rotation
\* keyword
ParseSingle_qualifierFirst(part, readers, dflt, count) ==
    LET handle == ExtractHandle(part)
        remaining0 == DropFirst(part, Len(handle))
    IN IF remaining0 = <<>> /\ handle # None
       THEN HandleOnly(handle, readers, count)
       ELSE LET qualifier == IF EndsWith(remaining0, <<"e", "v", "e", "n">>) THEN "even"
                             ELSE IF EndsWith(remaining0, <<"o", "d", "d">>) THEN "odd"
                             ELSE "none"
                remaining1 == IF qualifier = "even" THEN DropLast(remaining0, 4)
                              ELSE IF qualifier = "odd" THEN DropLast(remaining0, 3)
                              ELSE remaining0
                ri == RotationIndex(remaining1, 1)
                rotation == IF ri = 0 THEN 0 ELSE ROTATIONS[ri].deg
                remaining2 == IF ri = 0 THEN remaining1
                              ELSE DropLast(remaining1, Len(ROTATIONS[ri].kw))
                pages == ParsePageSpec(remaining2, handle, readers, dflt, count)
            IN IF ~pages.ok THEN pages
               ELSE Ok(PageSpec(handle, ApplyQualifier(pages.val, qualifier), rotation))

\* _parse_single
ParseSingle(part, readers, dflt, count) ==
    LET handle == ExtractHandle(part)
        remaining0 == DropFirst(part, Len(handle))
    IN IF remaining0 = <<>> /\ handle # None
       THEN HandleOnly(handle, readers, count)
       ELSE LET ri == RotationIndex(remaining0, 1)
                rotation == IF ri = 0 THEN 0 ELSE ROTATIONS[ri].deg
                remaining1 == IF ri = 0 THEN remaining0
                              ELSE DropLast(remaining0, Len(ROTATIONS[ri].kw))
                qualifier == IF EndsWith(remaining1, <<"e", "v", "e", "n">>) THEN "even"
                             ELSE IF EndsWith(remaining1, <<"o", "d", "d">>) THEN "odd"
                             ELSE "none"
                remaining2 == IF qualifier = "even" THEN DropLast(remaining1, 4)
                              ELSE IF qualifier = "odd" THEN DropLast(remaining1, 3)
                              ELSE remaining1
                pages == ParsePageSpec(remaining2, handle, readers, dflt, count)
            IN IF ~pages.ok THEN pages
               ELSE Ok(PageSpec(handle, ApplyQualifier(pages.val, qualifier), rotation))

\* mutant of ParseParts: every part is parsed and the error of the last
\* failing part is raised
ParseParts_lastError(parts, acc, readers, dflt, count) ==
    LET res == [i \in 1..Len(parts) |-> ParseSingle(parts[i], readers, dflt, count)]
        bad == {i \in 1..Len(parts) : ~res[i].ok}
    IN IF bad = {}
       THEN Ok(acc \o [i \in 1..Len(parts) |-> res[i].val])
       ELSE res[CHOOSE i \in bad : \A j \in bad : j <= i]

\* the loop of parse over the parts: the first failing part raises
RECURSIVE ParseParts(_, _, _, _, _)
ParseParts(parts, acc, readers, dflt, count) ==
    IF parts = <<>> THEN Ok(acc)
    ELSE LET spec == ParseSingle(Head(parts), readers, dflt, count)
         IN IF ~spec.ok THEN spec
            ELSE ParseParts(Tail(parts), Append(acc, spec.val), readers, dflt, count)

\* PageRangeParser(readers, default_reader).parse(range_str)
Parse(range_str, readers, default_reader, count) ==
    ParseParts(Split(range_str), <<>>, readers,
               ParserDefault(readers, default_reader), count)

(*************************************************************************)
(* Inputs                                                                *)
(*************************************************************************)
\* the handles under which documents are registered in cat and shuffle
Handles == {<<"A">>, <<"B">>}

\* the key of rotate's single reader (rotate registers no handle)
InputReader == <<"input_file">>

\* range strings given to cat
CatRanges ==
    { <<>>,                                                     \* ""
      <<"A">>,                                                  \* "A"
      <<"A", "1", "e", "a", "s", "t">>,                         \* "A1east"
      <<"A", "1", " ", "B", "1", "w", "e", "s", "t">>,          \* "A1 B1west"
      <<"B", "e", "n", "d", "-", "1", "s", "o", "u", "t", "h">>,\* "Bend-1south"
      <<"1", "-", "e", "n", "d">>,                              \* "1-end"
      <<"1", "n", "o", "r", "t", "h">>,                         \* "1north"
      <<"A", "0">>,                                             \* "A0"
      <<"A", "9">>,                                             \* "A9"
      <<"A", "x">>,                                             \* "Ax"
      <<"C", "1">>,                                             \* "C1"
      <<"C", "e", "a", "s", "t">> }                             \* "Ceast"

SeqsUpTo(S, n) == UNION {[1..k -> S] : k \in 0..n}

\* orders in which up to two handles are registered (dict insertion order)
InputOrders ==
    {f \in SeqsUpTo(Handles, Cardinality(Handles)) :
        \A i, j \in 1..Len(f) : i # j => f[i] # f[j]}

Range(f) == {f[i] : i \in 1..Len(f)}

(*************************************************************************)
(* State                                                                 *)
(*************************************************************************)
VARIABLES
    op,             \* "cat", "rotate" or "shuffle"
    input_files,    \* keys of the readers, in insertion order
    count,          \* len(reader.pages) of each reader
    page_ranges,    \* the list of range strings
    pc,             \* position in the operation
    ri,             \* index of the next range string
    specs,          \* cat: the specs of the current range string
    si,             \* cat: index of the current spec / sorted handle
    pi,             \* index of the next page of the current spec / document
    reader,         \* cat: the reader selected for the current spec
    all_specs,      \* every spec parsed so far, in order
    rotation_map,   \* rotate: page_num -> rotation
    page_iterators, \* shuffle: the live iterators (index into all_specs)
    iter_items,     \* shuffle: what each iterator has yet to yield
    scan,           \* shuffle: the copy of page_iterators being scanned
    writer,         \* the pages added to the PdfWriter
    rot,            \* /Rotate of each page object of each reader
    output_file,    \* "absent" or "written"
    error,          \* the exception that ended the operation
    range_str,      \* parse: the text given to PageRangeParser.parse
    default_reader, \* parse: the default_reader given to the constructor
    parts,          \* parse: range_str.split()
    part_i,         \* parse: index of the next part
    tokens,         \* parse: the tokens range_str was written from
    cli,            \* main: position in the command-line entry point
    inputs,         \* main: parsed_args.inputs (parsed_args.input as a list)
    output_pattern, \* main: parsed_args.output_pattern of burst
    input_i,        \* parse_input_files: index of the next input token
    handles,        \* parse_input_files: the dict, in insertion order
    files,          \* parse_input_files: the list of paths
    stderr,         \* main: the messages printed to sys.stderr
    exit_status     \* main: the exit status of the process, -1 while running

\* the variables of a direct call of PageRangeParser.parse
pvars == <<range_str, default_reader, parts, part_i, tokens>>

\* the variables of the command-line entry point
cvars == <<cli, inputs, output_pattern, input_i, handles, files, stderr,
           exit_status>>

vars == <<op, input_files, count, page_ranges, pc, ri, specs, si, pi, reader,
          all_specs, rotation_map, page_iterators, iter_items, scan, writer,
          rot, output_file, error, pvars, cvars>>

NoError == [kind |-> "none", handle |-> None]

Readers == Range(input_files)

\* reader.pages[index] (pypdf's page list accepts negative indices as a
\* Python list does): the 1-based page it yields, or IndexError
PagesGetItem(total, index) ==
    LET idx == IF index < 0 THEN total + index ELSE index
    IN IF idx < 0 \/ idx >= total THEN Raise("IndexError", None)
       ELSE Ok(idx + 1)

\* page.rotate(angle): adds the angle to the page object's /Rotate
PageRotate(r, h, p, angle) ==
    [r EXCEPT ![h][p] = r[h][p] + angle]

\* the page as PdfWriter.add_page copies it
Added(h, page_num, p, r, s, k) ==
    [reader |-> h, page_num |-> page_num, page |-> p, rotation |-> r[h][p],
     spec |-> s, pos |-> k]

InitCommon ==
    /\ pc = "start"
    /\ ri = 1
    /\ specs = <<>>
    /\ si = 1
    /\ pi = 1
    /\ reader = None
    /\ all_specs = <<>>
    /\ rotation_map = <<>>
    /\ page_iterators = <<>>
    /\ iter_items = <<>>
    /\ scan = <<>>
    /\ writer = <<>>
    /\ rot = [h \in DOMAIN count |-> [p \in 1..count[h] |-> 0]]
    /\ output_file = "absent"
    /\ error = NoError

\* cat, rotate and shuffle are entered with no direct parse call under way
\* a direct call of an operation or of the parser: main is not running
InitNoCli ==
    /\ cli = "none"
    /\ inputs = <<>>
    /\ output_pattern = <<>>
    /\ input_i = 1
    /\ handles = <<>>
    /\ files = <<>>
    /\ stderr = <<>>
    /\ exit_status = 0 - 1

InitNoParse ==
    /\ range_str = <<>>
    /\ default_reader = None
    /\ parts = <<>>
    /\ part_i = 1
    /\ tokens = <<>>

InitCat ==
    /\ op = "cat"
    /\ InitNoCli
    /\ InitNoParse
    /\ input_files \in InputOrders
    /\ count \in [Range(input_files) -> 1..MaxPages]
    /\ page_ranges \in SeqsUpTo(CatRanges, MaxRanges)
    /\ InitCommon

(*************************************************************************)
(* core.py: cat                                                          *)
(*************************************************************************)
\* default_reader of cat
CatDefaultReader ==
    IF Cardinality(Readers) = 1 THEN input_files[1] ELSE None

Fail(e) ==
    /\ pc' = "error"
    /\ error' = e

\* mutant of CatStart: the output file is opened before the pages are
\* assembled
CatStart_openFirst ==
    /\ op = "cat" /\ pc = "start"
    /\ pc' = IF page_ranges = <<>> THEN "merge" ELSE "parse"
    /\ output_file' = "opened"
    /\ UNCHANGED <<cvars, pvars, op, input_files, count, page_ranges, ri, specs, si, pi,
                   reader, all_specs, rotation_map, page_iterators,
                   iter_items, scan, writer, rot, error>>

\* readers loaded, writer created, branch on "not page_ranges"
CatStart ==
    /\ op = "cat" /\ pc = "start"
    /\ pc' = IF page_ranges = <<>> THEN "merge" ELSE "parse"
    /\ UNCHANGED <<cvars, pvars, op, input_files, count, page_ranges, ri, specs, si, pi,
                   reader, all_specs, rotation_map, page_iterators,
                   iter_items, scan, writer, rot, output_file, error>>

\* mutant of MergeOrder: the documents in the dict's insertion order
MergeOrder_insertion == input_files

\* the order in which the merge branch visits the documents
MergeOrder == Sorted(Readers)

\* one step of "for handle in sorted(readers.keys()): for page in reader.pages"
CatMerge ==
    /\ op = "cat" /\ pc = "merge"
    /\ LET hs == MergeOrder IN
       IF si > Len(hs)
       THEN /\ pc' = "write"
            /\ UNCHANGED <<si, pi, writer>>
       ELSE IF pi > count[hs[si]]
       THEN /\ si' = si + 1
            /\ pi' = 1
            /\ UNCHANGED <<pc, writer>>
       ELSE /\ writer' = Append(writer, Added(hs[si], pi, pi, rot, 0, pi))
            /\ pi' = pi + 1
            /\ UNCHANGED <<pc, si>>
    /\ UNCHANGED <<cvars, pvars, op, input_files, count, page_ranges, ri, specs, reader,
                   all_specs, rotation_map, page_iterators, iter_items, scan,
                   rot, output_file, error>>

\* "for range_str in page_ranges: specs = parser.parse(range_str)"
CatParse ==
    /\ op = "cat" /\ pc = "parse"
    /\ IF ri > Len(page_ranges)
       THEN /\ pc' = "write"
            /\ UNCHANGED <<ri, specs, si, all_specs, error>>
       ELSE LET res == Parse(page_ranges[ri], Readers, CatDefaultReader, count) IN
            IF ~res.ok
            THEN /\ Fail(res.err)
                 /\ UNCHANGED <<ri, specs, si, all_specs>>
            ELSE /\ specs' = res.val
                 /\ all_specs' = all_specs \o res.val
                 /\ si' = 1
                 /\ ri' = ri + 1
                 /\ pc' = "spec"
                 /\ UNCHANGED error
    /\ UNCHANGED <<cvars, pvars, op, input_files, count, page_ranges, pi, reader,
                   rotation_map, page_iterators, iter_items, scan, writer,
                   rot, output_file>>

\* mutant of CatReaderFor: every spec reads the first registered document
CatReaderFor_first(spec) ==
    IF input_files = <<>> THEN Raise("NoDefaultReader", None)
    ELSE Ok(input_files[1])

\* "Get the appropriate reader": readers[spec.handle], or the default
CatReaderFor(spec) ==
    IF spec.handle # None
    THEN (IF spec.handle \in Readers THEN Ok(spec.handle)
          ELSE Raise("KeyError", spec.handle))
    ELSE IF CatDefaultReader = None THEN Raise("NoDefaultReader", None)
    ELSE Ok(CatDefaultReader)

\* "for spec in specs": the reader of the spec
CatSelectReader ==
    /\ op = "cat" /\ pc = "spec"
    /\ IF si > Len(specs)
       THEN /\ pc' = "parse"
            /\ UNCHANGED <<reader, pi, error>>
       ELSE LET res == CatReaderFor(specs[si]) IN
            IF ~res.ok
            THEN /\ Fail(res.err)
                 /\ UNCHANGED <<reader, pi>>
            ELSE /\ reader' = res.val
                 /\ pi' = 1
                 /\ pc' = "page"
                 /\ UNCHANGED error
    /\ UNCHANGED <<cvars, pvars, op, input_files, count, page_ranges, ri, specs, si,
                   all_specs, rotation_map, page_iterators, iter_items, scan,
                   writer, rot, output_file>>

\* "for page_num in spec.pages": fetch, rotate, add
CatAddPage ==
    /\ op = "cat" /\ pc = "page"
    /\ LET spec == specs[si] IN
       IF pi > Len(spec.pages)
       THEN /\ si' = si + 1
            /\ pc' = "spec"
            /\ UNCHANGED <<pi, writer, rot, error>>
       ELSE LET page == PagesGetItem(count[reader], spec.pages[pi] - 1) IN
            IF ~page.ok
            THEN /\ Fail(page.err)
                 /\ UNCHANGED <<si, pi, writer, rot>>
            ELSE LET r == IF spec.rotation # 0
                          THEN PageRotate(rot, reader, page.val, spec.rotation)
                          ELSE rot
                 IN /\ rot' = r
                    /\ writer' = Append(writer,
                                   Added(reader, spec.pages[pi], page.val, r,
                                         Len(all_specs) - Len(specs) + si, pi))
                    /\ pi' = pi + 1
                    /\ UNCHANGED <<si, pc, error>>
    /\ UNCHANGED <<cvars, pvars, op, input_files, count, page_ranges, ri, specs, reader,
                   all_specs, rotation_map, page_iterators, iter_items, scan,
                   output_file>>

\* "with open(output, 'wb') as f: writer.write(f)"
WriteOutput ==
    /\ pc = "write"
    /\ output_file' = "written"
    /\ pc' = "done"
    /\ UNCHANGED <<cvars, pvars, op, input_files, count, page_ranges, ri, specs, si, pi,
                   reader, all_specs, rotation_map, page_iterators,
                   iter_items, scan, writer, rot, error>>

NextCat == CatStart \/ CatMerge \/ CatParse \/ CatSelectReader \/ CatAddPage
           \/ WriteOutput

SpecCat == InitCat /\ [][NextCat]_vars

(*************************************************************************)
(* core.py: rotate                                                       *)
(*************************************************************************)
\* range strings given to rotate
RotateRanges ==
    { <<>>,                                                     \* ""
      <<"1", "e", "a", "s", "t">>,                              \* "1east"
      <<"1", "-", "2", "s", "o", "u", "t", "h">>,               \* "1-2south"
      <<"2">>,                                                  \* "2"
      <<"2", "-", "1", "l", "e", "f", "t">>,                    \* "2-1left"
      <<"1", "w", "e", "s", "t", " ", "r", "1", "e", "a", "s", "t">>,
                                                                \* "1west r1east"
      <<"1", "-", "e", "n", "d", "e", "v", "e", "n", "d", "o", "w", "n">>,
                                                                \* "1-endevendown"
      <<"9", "e", "a", "s", "t">>,                              \* "9east"
      <<"0", "e", "a", "s", "t">>,                              \* "0east"
      <<"1", "x">>,                                             \* "1x"
      <<"A", "1", "e", "a", "s", "t">> }                        \* "A1east"

InitRotate ==
    /\ op = "rotate"
    /\ InitNoCli
    /\ InitNoParse
    /\ input_files = <<InputReader>>
    /\ count \in [{InputReader} -> 1..MaxPages]
    /\ page_ranges \in SeqsUpTo(RotateRanges, MaxRanges)
    /\ InitCommon

\* mutant of MapPages: the rotations of overlapping specs add up
RECURSIVE MapPages_additive(_, _, _)
MapPages_additive(map, pages, rotation) ==
    IF pages = <<>> THEN map
    ELSE MapPages_additive(
             [p \in DOMAIN map \cup {Head(pages)} |->
                 IF p = Head(pages)
                 THEN (IF p \in DOMAIN map THEN map[p] + rotation ELSE rotation)
                 ELSE map[p]],
             Tail(pages), rotation)

\* "rotation_map[page_num] = spec.rotation" for every page of one spec
RECURSIVE MapPages(_, _, _)
MapPages(map, pages, rotation) ==
    IF pages = <<>> THEN map
    ELSE MapPages([p \in DOMAIN map \cup {Head(pages)} |->
                      IF p = Head(pages) THEN rotation ELSE map[p]],
                  Tail(pages), rotation)

\* mutant of MapSpecs: a page number below 1 is taken as an index counted
\* from the end of the document
RECURSIVE MapSpecs_fromEnd(_, _)
MapSpecs_fromEnd(map, ss) ==
    IF ss = <<>> THEN map
    ELSE MapSpecs_fromEnd(
             MapPages(map,
                      [k \in 1..Len(Head(ss).pages) |->
                          IF Head(ss).pages[k] < 1
                          THEN count[InputReader] + Head(ss).pages[k]
                          ELSE Head(ss).pages[k]],
                      Head(ss).rotation),
             Tail(ss))

\* "for spec in specs: for page_num in spec.pages: rotation_map[...] = ..."
RECURSIVE MapSpecs(_, _)
MapSpecs(map, ss) ==
    IF ss = <<>> THEN map
    ELSE MapSpecs(MapPages(map, Head(ss).pages, Head(ss).rotation), Tail(ss))

\* reader loaded, parser created over no handles with the reader as default
RotateStart ==
    /\ op = "rotate" /\ pc = "start"
    /\ pc' = "parse"
    /\ UNCHANGED <<cvars, pvars, op, input_files, count, page_ranges, ri, specs, si, pi,
                   reader, all_specs, rotation_map, page_iterators,
                   iter_items, scan, writer, rot, output_file, error>>

\* "for range_str in page_ranges": parse and fold into the rotation map
RotateParse ==
    /\ op = "rotate" /\ pc = "parse"
    /\ IF ri > Len(page_ranges)
       THEN /\ pc' = "pages"
            /\ UNCHANGED <<ri, all_specs, rotation_map, error>>
       ELSE LET res == Parse(page_ranges[ri], {}, InputReader, count) IN
            IF ~res.ok
            THEN /\ Fail(res.err)
                 /\ UNCHANGED <<ri, all_specs, rotation_map>>
            ELSE /\ rotation_map' = MapSpecs(rotation_map, res.val)
                 /\ all_specs' = all_specs \o res.val
                 /\ ri' = ri + 1
                 /\ UNCHANGED <<pc, error>>
    /\ UNCHANGED <<cvars, pvars, op, input_files, count, page_ranges, specs, si, pi, reader,
                   page_iterators, iter_items, scan, writer, rot, output_file>>

\* mutant of RotatePage: only the pages of the rotation map are added
RotatePage_selected ==
    /\ op = "rotate" /\ pc = "pages"
    /\ IF pi > count[InputReader]
       THEN /\ pc' = "write"
            /\ UNCHANGED <<pi, writer, rot>>
       ELSE IF pi \in DOMAIN rotation_map
       THEN LET r == PageRotate(rot, InputReader, pi, rotation_map[pi])
            IN /\ rot' = r
               /\ writer' = Append(writer, Added(InputReader, pi, pi, r, 0, pi))
               /\ pi' = pi + 1
               /\ UNCHANGED pc
       ELSE /\ pi' = pi + 1
            /\ UNCHANGED <<pc, writer, rot>>
    /\ UNCHANGED <<cvars, pvars, op, input_files, count, page_ranges, ri, specs, si, reader,
                   all_specs, rotation_map, page_iterators, iter_items, scan,
                   output_file, error>>

\* "for i, page in enumerate(reader.pages, start=1)"
RotatePage ==
    /\ op = "rotate" /\ pc = "pages"
    /\ IF pi > count[InputReader]
       THEN /\ pc' = "write"
            /\ UNCHANGED <<pi, writer, rot>>
       ELSE LET r == IF pi \in DOMAIN rotation_map
                     THEN PageRotate(rot, InputReader, pi, rotation_map[pi])
                     ELSE rot
            IN /\ rot' = r
               /\ writer' = Append(writer, Added(InputReader, pi, pi, r, 0, pi))
               /\ pi' = pi + 1
               /\ UNCHANGED pc
    /\ UNCHANGED <<cvars, pvars, op, input_files, count, page_ranges, ri, specs, si, reader,
                   all_specs, rotation_map, page_iterators, iter_items, scan,
                   output_file, error>>

NextRotate == RotateStart \/ RotateParse \/ RotatePage \/ WriteOutput

SpecRotate == InitRotate /\ [][NextRotate]_vars

(*************************************************************************)
(* core.py: shuffle                                                      *)
(*************************************************************************)
\* range strings given to shuffle
ShuffleRanges ==
    { <<>>,                                                     \* ""
      <<"A">>,                                                  \* "A"
      <<"B">>,                                                  \* "B"
      <<"A", "1", "e", "a", "s", "t">>,                         \* "A1east"
      <<"B", "e", "n", "d", "-", "1", "w", "e", "s", "t">>,     \* "Bend-1west"
      <<"A", " ", "A", "1", "l", "e", "f", "t">>,               \* "A A1left"
      <<"A", "e", "v", "e", "n">>,                              \* "Aeven"
      <<"A", "1", "-", "3">>,                                   \* "A1-3"
      <<"A", "0">>,                                             \* "A0"
      <<"1">>,                                                  \* "1"
      <<"e", "a", "s", "t">>,                                   \* "east"
      <<"A", "x">>,                                             \* "Ax"
      <<"C">> }                                                 \* "C"

InitShuffle ==
    /\ op = "shuffle"
    /\ InitNoCli
    /\ InitNoParse
    /\ input_files \in InputOrders
    /\ count \in [Range(input_files) -> 1..MaxPages]
    /\ page_ranges \in SeqsUpTo(ShuffleRanges, MaxRanges)
    /\ InitCommon

\* "[(reader, page_num, spec.rotation) for page_num in spec.pages]"
PagesList(h, spec) ==
    [k \in 1..Len(spec.pages) |->
        [reader |-> h, page_num |-> spec.pages[k], rotation |-> spec.rotation]]

\* mutant of Remove: the first live iterator is dropped, whichever ran out
Remove_first(l, x) == Tail(l)

\* mutant of Remove: the exhausted iterator stays in the list
Remove_none(l, x) == l

\* list.remove(x): drops the first occurrence of x
RECURSIVE Remove(_, _)
Remove(l, x) ==
    IF l = <<>> THEN <<>>
    ELSE IF Head(l) = x THEN Tail(l)
    ELSE <<Head(l)>> \o Remove(Tail(l), x)

\* readers loaded, parser created with no explicit default
ShuffleStart ==
    /\ op = "shuffle" /\ pc = "start"
    /\ pc' = "parse"
    /\ UNCHANGED <<cvars, pvars, op, input_files, count, page_ranges, ri, specs, si, pi,
                   reader, all_specs, rotation_map, page_iterators,
                   iter_items, scan, writer, rot, output_file, error>>

\* "for range_str in page_ranges: all_specs.extend(parser.parse(range_str))"
ShuffleParse ==
    /\ op = "shuffle" /\ pc = "parse"
    /\ IF ri > Len(page_ranges)
       THEN /\ pc' = "iters"
            /\ UNCHANGED <<ri, all_specs, error>>
       ELSE LET res == Parse(page_ranges[ri], Readers, None, count) IN
            IF ~res.ok
            THEN /\ Fail(res.err)
                 /\ UNCHANGED <<ri, all_specs>>
            ELSE /\ all_specs' = all_specs \o res.val
                 /\ ri' = ri + 1
                 /\ UNCHANGED <<pc, error>>
    /\ UNCHANGED <<cvars, pvars, op, input_files, count, page_ranges, specs, si, pi, reader,
                   rotation_map, page_iterators, iter_items, scan, writer,
                   rot, output_file>>

\* mutant of ShuffleReaderFor: a spec without a handle reads the only document
ShuffleReaderFor_default(spec) ==
    IF spec.handle = None
    THEN (IF Cardinality(Readers) = 1 THEN Ok(input_files[1])
          ELSE Raise("ShuffleRequiresHandles", None))
    ELSE IF spec.handle \notin Readers THEN Raise("KeyError", spec.handle)
    ELSE Ok(spec.handle)

\* "if spec.handle is None: raise ...; reader = readers[spec.handle]"
ShuffleReaderFor(spec) ==
    IF spec.handle = None THEN Raise("ShuffleRequiresHandles", None)
    ELSE IF spec.handle \notin Readers THEN Raise("KeyError", spec.handle)
    ELSE Ok(spec.handle)

\* "for spec in all_specs": one iterator per spec
ShuffleMakeIterator ==
    /\ op = "shuffle" /\ pc = "iters"
    /\ IF si > Len(all_specs)
       THEN /\ pc' = "while"
            /\ UNCHANGED <<si, page_iterators, iter_items, error>>
       ELSE LET spec == all_specs[si]
                res == ShuffleReaderFor(spec)
            IN IF ~res.ok
               THEN /\ Fail(res.err)
                    /\ UNCHANGED <<si, page_iterators, iter_items>>
               ELSE /\ page_iterators' = Append(page_iterators, si)
                    /\ iter_items' = Append(iter_items, PagesList(res.val, spec))
                    /\ si' = si + 1
                    /\ UNCHANGED <<pc, error>>
    /\ UNCHANGED <<cvars, pvars, op, input_files, count, page_ranges, ri, specs, pi, reader,
                   all_specs, rotation_map, scan, writer, rot, output_file>>

\* mutant of ShuffleWhile: every pass scans all the iterators ever made
ShuffleWhile_scanAll ==
    /\ op = "shuffle" /\ pc = "while"
    /\ IF page_iterators = <<>>
       THEN /\ pc' = "write"
            /\ UNCHANGED <<scan, pi>>
       ELSE /\ scan' = [i \in 1..Len(iter_items) |-> i]
            /\ pi' = 1
            /\ pc' = "visit"
    /\ UNCHANGED <<cvars, pvars, op, input_files, count, page_ranges, ri, specs, si, reader,
                   all_specs, rotation_map, page_iterators, iter_items,
                   writer, rot, output_file, error>>

\* "while page_iterators: for page_iter in page_iterators[:]"
ShuffleWhile ==
    /\ op = "shuffle" /\ pc = "while"
    /\ IF page_iterators = <<>>
       THEN /\ pc' = "write"
            /\ UNCHANGED <<scan, pi>>
       ELSE /\ scan' = page_iterators
            /\ pi' = 1
            /\ pc' = "visit"
    /\ UNCHANGED <<cvars, pvars, op, input_files, count, page_ranges, ri, specs, si, reader,
                   all_specs, rotation_map, page_iterators, iter_items,
                   writer, rot, output_file, error>>

\* one visit of the scan: next(page_iter), then fetch, rotate and add the
\* page, or remove the exhausted iterator
ShuffleVisit ==
    /\ op = "shuffle" /\ pc = "visit"
    /\ IF pi > Len(scan)
       THEN /\ pc' = "while"
            /\ UNCHANGED <<pi, page_iterators, iter_items, writer, rot, error>>
       ELSE LET it == scan[pi] IN
            IF iter_items[it] = <<>>
            THEN /\ page_iterators' = Remove(page_iterators, it)
                 /\ pi' = pi + 1
                 /\ UNCHANGED <<pc, iter_items, writer, rot, error>>
            ELSE LET item == Head(iter_items[it])
                     page == PagesGetItem(count[item.reader], item.page_num - 1)
                 IN /\ iter_items' = [iter_items EXCEPT ![it] = Tail(@)]
                    /\ IF ~page.ok
                       THEN /\ Fail(page.err)
                            /\ UNCHANGED <<pi, page_iterators, writer, rot>>
                       ELSE LET r == IF item.rotation # 0
                                     THEN PageRotate(rot, item.reader, page.val,
                                                     item.rotation)
                                     ELSE rot
                            IN /\ rot' = r
                               /\ writer' = Append(writer,
                                     Added(item.reader, item.page_num, page.val, r, it,
                                           Len(all_specs[it].pages)
                                             - Len(iter_items[it]) + 1))
                               /\ pi' = pi + 1
                               /\ UNCHANGED <<pc, page_iterators, error>>
    /\ UNCHANGED <<cvars, pvars, op, input_files, count, page_ranges, ri, specs, si, reader,
                   all_specs, rotation_map, scan, output_file>>

NextShuffle == ShuffleStart \/ ShuffleParse \/ ShuffleMakeIterator
               \/ ShuffleWhile \/ ShuffleVisit \/ WriteOutput

SpecShuffle == InitShuffle /\ [][NextShuffle]_vars

(*************************************************************************)
(* The three operations together                                         *)
(*************************************************************************)
Init == InitCat \/ InitRotate \/ InitShuffle

Next == CatStart \/ CatMerge \/ CatParse \/ CatSelectReader \/ CatAddPage
        \/ RotateStart \/ RotateParse \/ RotatePage
        \/ ShuffleStart \/ ShuffleParse \/ ShuffleMakeIterator
        \/ ShuffleWhile \/ ShuffleVisit
        \/ WriteOutput

Spec == Init /\ [][Next]_vars

(*************************************************************************)
(* Properties                                                            *)
(*************************************************************************)
RECURSIVE SumLen(_)
SumLen(ss) ==
    IF ss = <<>> THEN 0 ELSE Len(Head(ss).pages) + SumLen(Tail(ss))

RECURSIVE SumCount(_)
SumCount(hs) ==
    IF hs = {} THEN 0
    ELSE LET h == CHOOSE x \in hs : TRUE IN count[h] + SumCount(hs \ {h})

MaxLen(ss) ==
    IF ss = <<>> THEN 0
    ELSE LET i == CHOOSE i \in 1..Len(ss) :
                     \A j \in 1..Len(ss) : Len(ss[j].pages) <= Len(ss[i].pages)
         IN Len(ss[i].pages)

\* the specs that still have a k-th page, in spec order
RoundRow(ss, k) ==
    LET Has(i) == Len(ss[i].pages) >= k
    IN SelectSeq([i \in 1..Len(ss) |-> i], Has)

\* <<spec, position>> in round-robin order: position by position, and
\* within a position the specs in ascending order
RECURSIVE RoundRobin(_, _)
RoundRobin(ss, k) ==
    IF k > MaxLen(ss) THEN <<>>
    ELSE [j \in 1..Len(RoundRow(ss, k)) |-> <<RoundRow(ss, k)[j], k>>]
         \o RoundRobin(ss, k + 1)

\* <<spec, position>> in flattened order: spec by spec, each spec's pages
\* in their own order
RECURSIVE Flatten(_, _)
Flatten(ss, i) ==
    IF i > Len(ss) THEN <<>>
    ELSE [k \in 1..Len(ss[i].pages) |-> <<i, k>>] \o Flatten(ss, i + 1)

\* the document a spec names: its handle, else the only registered document
DocumentOf(spec) ==
    IF spec.handle # None THEN spec.handle ELSE input_files[1]

\* the writer holds, in the given order, the page each spec names at each
\* position, taken from the spec's document; a page number within 1..T of
\* the document is that page of it (what a number outside 1..T fetches is
\* the subject of C20)
EmitsInOrder(order) ==
    /\ Len(writer) = Len(order)
    /\ \A j \in 1..Len(order) :
          LET i == order[j][1]
              k == order[j][2]
          IN /\ writer[j].spec = i
             /\ writer[j].pos = k
             /\ writer[j].reader = DocumentOf(all_specs[i])
             /\ writer[j].page_num = all_specs[i].pages[k]
             /\ (writer[j].page_num \in 1..count[writer[j].reader]
                   => writer[j].page = writer[j].page_num)

\* C1: when shuffle completes, the pages stand in strict round-robin order
\* that compacts around exhausted specs: for k = 1, 2, ... the k-th page of
\* every spec that has one, the specs in ascending order.
C1_ShuffleRoundRobin ==
    (op = "shuffle" /\ pc = "done") => EmitsInOrder(RoundRobin(all_specs, 1))

\* a completed shuffle of a short spec followed by a spec at least two
\* pages longer
C1_Witness ==
    /\ op = "shuffle" /\ pc = "done"
    /\ Len(all_specs) = 2
    /\ Len(all_specs[1].pages) >= 1
    /\ Len(all_specs[2].pages) >= Len(all_specs[1].pages) + 2

\* the positions of the writer's pages that came from spec i
FromSpec(i) == {j \in 1..Len(writer) : writer[j].spec = i}

\* what a completed round-robin loop leaves: no live iterator, one page
\* per page of every spec, each spec's pages in the spec's own order
ShuffleFinal ==
    /\ page_iterators = <<>>
    /\ Len(writer) = SumLen(all_specs)
    /\ \A i \in 1..Len(all_specs) :
          /\ {writer[j].pos : j \in FromSpec(i)} = 1..Len(all_specs[i].pages)
          /\ \A j1, j2 \in FromSpec(i) :
                j1 < j2 => writer[j1].pos < writer[j2].pos
          /\ \A j \in FromSpec(i) :
                writer[j].page_num = all_specs[i].pages[writer[j].pos]

\* the stage of shuffle, counted down
Phase ==
    CASE pc = "start" -> 5
      [] pc = "parse" -> 4
      [] pc = "iters" -> 3
      [] pc \in {"while", "visit"} -> 2
      [] pc = "write" -> 1
      [] OTHER -> 0

\* what the live iterators have yet to do: yield their items, then run out
RECURSIVE Pending(_)
Pending(its) ==
    IF its = <<>> THEN 0
    ELSE Len(iter_items[Head(its)]) + 1 + Pending(Tail(its))

\* the work left within the current stage
Inner ==
    CASE pc = "parse" -> Len(page_ranges) + 1 - ri
      [] pc = "iters" -> Len(all_specs) + 1 - si
      [] pc = "while" -> 3 * Pending(page_iterators) + 1
      [] pc = "visit" -> 3 * Pending(page_iterators)
                         + (IF pi > Len(scan) THEN 2 ELSE 0)
      [] OTHER -> 0

\* a step brings shuffle closer to its end
Decreases ==
    \/ Phase' < Phase
    \/ Phase' = Phase /\ Inner' < Inner

\* C2: shuffle terminates for every list of specs, also with empty page
\* lists: every step decreases a measure that is bounded below, so no run
\* is infinite; when the round-robin loop completes no iterator is live,
\* sum(L_i) pages were emitted and each spec's pages are in its own order.
C2_ShuffleTerminates ==
    /\ [][Decreases]_vars
    /\ [](Inner >= 0)
    /\ [](pc \in {"write", "done"} => ShuffleFinal)

\* a completed shuffle in which one spec had no page and another had some
C2_Witness ==
    /\ op = "shuffle" /\ pc = "done"
    /\ \E i \in 1..Len(all_specs) : all_specs[i].pages = <<>>
    /\ Len(writer) >= 2

\* C3: when rotate completes, the output has exactly the T pages of the
\* document, output page i being source page i, whatever the specs select.
C3_RotateKeepsPages ==
    (op = "rotate" /\ pc = "done") =>
        /\ Len(writer) = count[InputReader]
        /\ \A i \in 1..Len(writer) :
              writer[i].reader = InputReader /\ writer[i].page = i

\* a completed rotate whose specs select a page twice, select pages in
\* descending order and leave some page of the document unselected
C3_Witness ==
    /\ op = "rotate" /\ pc = "done"
    /\ \E i \in 1..Len(all_specs) :
          Len(all_specs[i].pages) >= 2
          /\ all_specs[i].pages[1] > all_specs[i].pages[2]
    /\ SumLen(all_specs) > Cardinality(DOMAIN rotation_map)
    /\ \E p \in 1..count[InputReader] : p \notin DOMAIN rotation_map

\* the specs whose page list contains page p
SpecsWith(p) ==
    {i \in 1..Len(all_specs) :
        \E k \in 1..Len(all_specs[i].pages) : all_specs[i].pages[k] = p}

\* the rotation of the last spec that contains page p, 0 when none does
LastRotation(p) ==
    IF SpecsWith(p) = {} THEN 0
    ELSE LET last == CHOOSE i \in SpecsWith(p) : \A j \in SpecsWith(p) : j <= i
         IN all_specs[last].rotation

\* C4: when rotate completes, page i carries exactly the rotation of the
\* last spec that contains i, and 0 when no spec contains it: overlapping
\* specs do not add up.
C4_RotateLastWriteWins ==
    (op = "rotate" /\ pc = "done") =>
        \A i \in 1..Len(writer) : writer[i].rotation = LastRotation(writer[i].page)

\* a completed rotate in which a page is covered by two specs with
\* different non-zero rotations, and another page by a rotating spec and
\* then by a spec without rotation
C4_Witness ==
    /\ op = "rotate" /\ pc = "done"
    /\ \E p \in 1..count[InputReader] : \E i, j \in SpecsWith(p) :
          /\ i < j
          /\ all_specs[i].rotation # 0
          /\ all_specs[j].rotation # 0
          /\ all_specs[i].rotation # all_specs[j].rotation
          /\ all_specs[i].rotation + all_specs[j].rotation # 0

\* the writer holds every page of every registered document once, the
\* documents in ascending handle order, each document's pages ascending,
\* unrotated
MergedAll ==
    /\ Len(writer) = SumCount(Readers)
    /\ \A h \in Readers : \A p \in 1..count[h] :
          \E j \in 1..Len(writer) : writer[j].reader = h /\ writer[j].page = p
    /\ \A j1, j2 \in 1..Len(writer) :
          j1 < j2 =>
            \/ StrLess(writer[j1].reader, writer[j2].reader)
            \/ /\ writer[j1].reader = writer[j2].reader
               /\ writer[j1].page < writer[j2].page
    /\ \A j \in 1..Len(writer) : writer[j].rotation = 0

\* C5 as stated: when cat completes having parsed zero specs, the output
\* is every page of every registered document.
C5_AsStated ==
    (op = "cat" /\ pc = "done" /\ all_specs = <<>>) => MergedAll

\* C5 amended: when cat completes on an empty list of range strings, the
\* output is every page of every registered document, the documents in
\* ascending handle order, each document's pages ascending, unrotated.
C5_CatMergesAll ==
    (op = "cat" /\ pc = "done" /\ page_ranges = <<>>) => MergedAll

\* a completed merge of two documents registered in descending handle order
C5_Witness ==
    /\ op = "cat" /\ pc = "done"
    /\ page_ranges = <<>>
    /\ Len(input_files) = 2
    /\ StrLess(input_files[2], input_files[1])
    /\ count[input_files[1]] # count[input_files[2]]

\* C6: when cat completes on a non-empty list of range strings, the output
\* is the flatten of the specs: spec by spec in parse order, each spec's
\* pages in the parser's order, sum of the page-list lengths in all, each
\* page taken from the document of its spec's handle or the default.
C6_CatFlattens ==
    (op = "cat" /\ pc = "done" /\ page_ranges # <<>>) =>
        /\ EmitsInOrder(Flatten(all_specs, 1))
        /\ Len(writer) = SumLen(all_specs)

\* a completed cat over two documents whose specs name both handles, with a
\* descending spec and a page selected twice
C6_Witness ==
    /\ op = "cat" /\ pc = "done"
    /\ Len(all_specs) >= 3
    /\ \E i, j \in 1..Len(all_specs) : all_specs[i].handle # all_specs[j].handle
    /\ \E i \in 1..Len(all_specs) :
          Len(all_specs[i].pages) >= 2
          /\ all_specs[i].pages[1] > all_specs[i].pages[2]
    /\ \E j1, j2 \in 1..Len(writer) :
          /\ j1 < j2
          /\ writer[j1].reader = writer[j2].reader
          /\ writer[j1].page = writer[j2].page

\* C7: when cat completes, every output page carries exactly the rotation
\* of the spec that selected it.
C7_CatRotationPerSpec ==
    (op = "cat" /\ pc = "done" /\ page_ranges # <<>>) =>
        \A j \in 1..Len(writer) :
            writer[j].rotation = all_specs[writer[j].spec].rotation

\* C8: when shuffle completes, every emitted page carries exactly the
\* rotation of the spec whose queue it was popped from.
C8_ShuffleRotationPerQueue ==
    (op = "shuffle" /\ pc = "done") =>
        \A j \in 1..Len(writer) :
            writer[j].rotation = all_specs[writer[j].spec].rotation

\* some parsed spec has no handle
HandleLess == \E i \in 1..Len(all_specs) : all_specs[i].handle = None

\* C9: once shuffle has parsed a spec without a handle, it can only fail:
\* no iterator is built for such a spec, the round-robin loop is never
\* entered, no page is emitted and the output is not written.
C9_ShuffleRejectsHandleLess ==
    (op = "shuffle" /\ HandleLess) =>
        /\ pc \in {"parse", "iters", "error"}
        /\ (pc = "iters" => \A i \in 1..(si - 1) : all_specs[i].handle # None)
        /\ writer = <<>>
        /\ output_file = "absent"

\* shuffle failed on a spec without a handle that followed a spec with one
C9_Witness ==
    /\ op = "shuffle" /\ pc = "error"
    /\ error.kind = "ShuffleRequiresHandles"
    /\ Len(all_specs) >= 2
    /\ all_specs[1].handle # None
    /\ page_iterators # <<>>

\* the number of pages the completed operation selected
Selected ==
    IF op = "rotate" THEN count[InputReader]
    ELSE IF op = "cat" /\ page_ranges = <<>> THEN SumCount(Readers)
    ELSE SumLen(all_specs)

\* C10: the output file is touched only by the final write, after every
\* range string was parsed and every selected page fetched; a run that
\* ended in an error has left it absent.
C10_NoPartialOutput ==
    /\ pc = "error" => output_file = "absent"
    /\ pc # "done" => output_file = "absent"
    /\ output_file # "absent" =>
          /\ error = NoError
          /\ page_ranges # <<>> => ri = Len(page_ranges) + 1
          /\ Len(writer) = Selected

\* an operation failed while fetching a page after it had added others
C10_Witness ==
    /\ pc = "error"
    /\ error.kind = "IndexError"
    /\ writer # <<>>


(*************************************************************************)
(* parser.py: a direct call of PageRangeParser(readers, default).parse   *)
(*************************************************************************)
MaxTokens == 2

\* a page reference as written: digits, end, rend or r<N>
Num(n) == [k |-> "num", n |-> n]
End == [k |-> "end", n |-> 0]
Rend == [k |-> "rend", n |-> 0]
R(n) == [k |-> "r", n |-> n]

\* str(n) for 0 <= n < 100
Str(n) ==
    IF n < 10 THEN <<Digits[n + 1]>>
    ELSE <<Digits[(n \div 10) + 1], Digits[(n % 10) + 1]>>

RefText(ref) ==
    IF ref.k = "end" THEN <<"e", "n", "d">>
    ELSE IF ref.k = "rend" THEN <<"r", "e", "n", "d">>
    ELSE IF ref.k = "r" THEN <<"r">> \o Str(ref.n)
    ELSE Str(ref.n)

\* a token as written: handle, page body, qualifier, rotation keyword;
\* kind "text" carries a body that is no page reference and no range, and
\* swapped puts the rotation keyword before the qualifier
Token(h, kind, a, b, text, qual, rotkw, swapped) ==
    [handle |-> h, kind |-> kind, a |-> a, b |-> b, text |-> text,
     qual |-> qual, rot |-> rotkw, swapped |-> swapped]

BodyText(tok) ==
    IF tok.kind = "single" THEN RefText(tok.a)
    ELSE IF tok.kind = "range" THEN RefText(tok.a) \o <<"-">> \o RefText(tok.b)
    ELSE IF tok.kind = "text" THEN tok.text
    ELSE <<>>

QualText(q) ==
    IF q = "even" THEN <<"e", "v", "e", "n">>
    ELSE IF q = "odd" THEN <<"o", "d", "d">>
    ELSE <<>>

RotText(i) == IF i = 0 THEN <<>> ELSE ROTATIONS[i].kw

TokenText(tok) ==
    tok.handle \o BodyText(tok)
    \o (IF tok.swapped THEN RotText(tok.rot) \o QualText(tok.qual)
        ELSE QualText(tok.qual) \o RotText(tok.rot))

Spaces(n) == [i \in 1..n |-> " "]

\* the tokens joined by 1 + pad blanks, with pad blanks before and after
RECURSIVE RangeText(_, _)
RangeText(toks, pad) ==
    IF toks = <<>> THEN Spaces(pad)
    ELSE Spaces(pad) \o TokenText(Head(toks))
         \o (IF Len(toks) = 1 THEN <<>> ELSE <<" ">>)
         \o RangeText(Tail(toks), pad)

Refs == {Num(0), Num(1), Num(2), Num(12), End, Rend, R(1), R(2), R(5)}

RangeRefs == {Num(1), Num(12), End, R(2)}

\* bodies that are neither a page reference nor two joined by "-"
OtherBodies ==
    { <<"x">>, <<"r">>, <<"1", "-">>, <<"-", "1">>, <<"+", "1">>,
      <<"r", "-", "1">>, <<"1", "-", "-", "2">>, <<"1", "-", "2", "-", "3">> }

Bodies ==
    {[kind |-> "none", a |-> Num(0), b |-> Num(0), text |-> <<>>]}
    \cup {[kind |-> "single", a |-> a, b |-> Num(0), text |-> <<>>] : a \in Refs}
    \cup {[kind |-> "range", a |-> a, b |-> b, text |-> <<>>] :
             a \in RangeRefs, b \in RangeRefs}
    \cup {[kind |-> "text", a |-> Num(0), b |-> Num(0), text |-> t] :
             t \in OtherBodies}

\* qualifier and rotation suffixes, in the documented order
Suffixes ==
    {[qual |-> "none", rot |-> i] : i \in 0..Len(ROTATIONS)}
    \cup {[qual |-> q, rot |-> 0] : q \in {"even", "odd"}}
    \cup {[qual |-> "even", rot |-> 2], [qual |-> "odd", rot |-> 7],
          [qual |-> "even", rot |-> 5]}

OnBody(h, bd, qual, rotkw, swapped) ==
    Token(h, bd.kind, bd.a, bd.b, bd.text, qual, rotkw, swapped)

TokenForms ==
    {OnBody(h, bd, sf.qual, sf.rot, FALSE) :
        h \in {None, <<"A">>}, bd \in Bodies, sf \in Suffixes}
    \cup {OnBody(h, bd, q, i, FALSE) :
        h \in {<<"A", "B">>, <<"C">>},
        bd \in {x \in Bodies : x.kind = "none" \/ x.a \in {Num(1), End}},
        q \in {"none", "even"}, i \in {0, 2}}
    \cup {OnBody(None, bd, q, i, TRUE) :
        bd \in {x \in Bodies : x.kind # "text" /\ x.a = Num(1)},
        q \in {"even", "odd"}, i \in 1..Len(ROTATIONS)}

\* a token has at least one character
Tokens == {t \in TokenForms : TokenText(t) # <<>>}

\* tokens of the range strings with more than one token
ListTokens ==
    { OnBody(<<"A">>, CHOOSE x \in Bodies : x.kind = "none", "none", 0, FALSE),
      Token(<<"A">>, "single", Num(1), Num(0), <<>>, "even", 0, FALSE),
      Token(None, "range", Num(2), Num(1), <<>>, "none", 2, FALSE),
      Token(<<"C">>, "single", Num(1), Num(0), <<>>, "none", 0, FALSE),
      Token(None, "text", Num(0), Num(0), <<"x">>, "none", 0, FALSE) }

TokenSeqs ==
    {<<>>} \cup {<<t>> : t \in Tokens}
    \cup UNION {[1..k -> ListTokens] : k \in 2..MaxTokens}

\* the arguments of the constructor: the registered handles in
\* registration order, and the explicit default reader if one is given
\* (rotate gives its only reader, cat the only registered one)
ParserArgs ==
    { [readers |-> <<>>, default |-> None],
      [readers |-> <<>>, default |-> InputReader],
      [readers |-> <<<<"A">>>>, default |-> None],
      [readers |-> <<<<"A">>, <<"B">>>>, default |-> None],
      [readers |-> <<<<"A">>, <<"B">>>>, default |-> <<"B">>],
      [readers |-> <<<<"A">>, <<"A", "B">>>>, default |-> None] }

InitParse ==
    /\ op = "parse"
    /\ InitNoCli
    /\ \E args \in ParserArgs :
          input_files = args.readers /\ default_reader = args.default
    /\ count \in [Range(input_files) \cup ({default_reader} \ {None})
                    -> 1..MaxPages]
    /\ page_ranges = <<>>
    /\ tokens \in TokenSeqs
    /\ \E pad \in 0..(IF Len(tokens) = 1 THEN 0 ELSE 1) :
          range_str = RangeText(tokens, pad)
    /\ parts = <<>>
    /\ part_i = 1
    /\ InitCommon

\* parse: "if not range_str.strip(): return []", then range_str.split()
ParseSplit ==
    /\ op = "parse" /\ pc = "start"
    /\ IF \A i \in 1..Len(range_str) : range_str[i] \in Whitespace
       THEN pc' = "done" /\ UNCHANGED parts
       ELSE pc' = "parts" /\ parts' = Split(range_str)
    /\ UNCHANGED <<cvars, op, input_files, count, page_ranges, ri, specs, si, pi,
                   reader, all_specs, rotation_map, page_iterators,
                   iter_items, scan, writer, rot, output_file, error,
                   range_str, default_reader, part_i, tokens>>

\* mutant of ParsePart: a spec whose page list is empty is not appended
ParsePart_skipEmpty ==
    /\ op = "parse" /\ pc = "parts"
    /\ IF part_i > Len(parts)
       THEN pc' = "done" /\ UNCHANGED <<specs, part_i, error>>
       ELSE LET spec == ParseSingle(parts[part_i], Readers,
                                    ParserDefault(Readers, default_reader),
                                    count)
            IN IF ~spec.ok
               THEN Fail(spec.err) /\ UNCHANGED <<specs, part_i>>
               ELSE /\ specs' = IF spec.val.pages = <<>> THEN specs
                                ELSE Append(specs, spec.val)
                    /\ part_i' = part_i + 1
                    /\ UNCHANGED <<pc, error>>
    /\ UNCHANGED <<cvars, op, input_files, count, page_ranges, ri, si, pi,
                   reader, all_specs, rotation_map, page_iterators,
                   iter_items, scan, writer, rot, output_file,
                   range_str, default_reader, parts, tokens>>

\* parse: one turn of "for part in parts", or the return after the loop
ParsePart ==
    /\ op = "parse" /\ pc = "parts"
    /\ IF part_i > Len(parts)
       THEN pc' = "done" /\ UNCHANGED <<specs, part_i, error>>
       ELSE LET spec == ParseSingle(parts[part_i], Readers,
                                    ParserDefault(Readers, default_reader),
                                    count)
            IN IF ~spec.ok
               THEN Fail(spec.err) /\ UNCHANGED <<specs, part_i>>
               ELSE /\ specs' = Append(specs, spec.val)
                    /\ part_i' = part_i + 1
                    /\ UNCHANGED <<pc, error>>
    /\ UNCHANGED <<cvars, op, input_files, count, page_ranges, ri, si, pi,
                   reader, all_specs, rotation_map, page_iterators,
                   iter_items, scan, writer, rot, output_file,
                   range_str, default_reader, parts, tokens>>

NextParse == ParseSplit \/ ParsePart

SpecParse == InitParse /\ [][NextParse]_vars

(*************************************************************************)
(* Properties of the parser                                              *)
(*************************************************************************)
\* the default document in effect for the call
Dflt == ParserDefault(Readers, default_reader)

\* the parse of one token on its own, with the call's registry and default
Alone(tok) == ParseSingle(TokenText(tok), Readers, Dflt, count)

\* the call has returned its list of specs
Returned == op = "parse" /\ pc = "done"

\* the call has raised
Raised == op = "parse" /\ pc = "error"

\* C11: parse splits its input on whitespace and returns one PageSpec per
\* token, in token order, each the parse of that token alone (a token whose
\* page list is empty included); empty or blank input returns no spec.
C11_OneSpecPerToken ==
    op = "parse" =>
        /\ pc \in {"parts", "done", "error"} /\ tokens # <<>> =>
              parts = [i \in 1..Len(tokens) |-> TokenText(tokens[i])]
        /\ Len(specs) <= Len(tokens)
        /\ \A i \in 1..Len(specs) :
              /\ Alone(tokens[i]).ok
              /\ specs[i] = Alone(tokens[i]).val
              /\ specs[i].handle = tokens[i].handle
        /\ Returned => Len(specs) = Len(tokens)
        /\ tokens = <<>> /\ pc # "start" => Returned /\ specs = <<>>

C11_Witness ==
    /\ Returned
    /\ Len(tokens) = 2 /\ range_str[1] = " " /\ Len(specs) = 2
    /\ specs[1].pages = <<>> /\ specs[2].pages # <<>>

\* the document a token is resolved against: its handle's, else the default
TokDoc(tok) == IF tok.handle # None THEN tok.handle ELSE Dflt

\* the token is written in the documented order and its document is known
Resolvable(tok) == ~tok.swapped /\ TokDoc(tok) \in DOMAIN count

\* the page number a page reference stands for in a document of T pages
RefValue(ref, T) ==
    IF ref.k = "end" THEN T
    ELSE IF ref.k = "rend" THEN 1
    ELSE IF ref.k = "r" THEN T - ref.n + 1
    ELSE ref.n

\* C12: against a document of T pages, end resolves to T, rend to 1, r<N>
\* to T - N + 1 and plain digits to the integer itself, unclamped; such a
\* token fails only for want of a document.
C12_ReferenceResolution ==
    op = "parse" =>
        /\ \A i \in 1..Len(specs) :
              tokens[i].kind = "single" /\ tokens[i].qual = "none" =>
                  /\ TokDoc(tokens[i]) \in DOMAIN count
                  /\ specs[i].pages =
                        <<RefValue(tokens[i].a, count[TokDoc(tokens[i])])>>
        /\ Raised /\ tokens[part_i].kind = "single" =>
              ~Resolvable(tokens[part_i])

C12_Witness ==
    /\ Returned
    /\ \E i \in 1..Len(specs) :
          /\ tokens[i].kind = "single" /\ tokens[i].a = R(5)
          /\ specs[i].pages = <<count[TokDoc(tokens[i])] - 4>>
          /\ specs[i].pages[1] < 1

Abs(n) == IF n < 0 THEN 0 - n ELSE n

\* p runs from start to end inclusive in steps of one, up or down
RunsFromTo(p, start, end) ==
    /\ Len(p) = Abs(start - end) + 1
    /\ p[1] = start
    /\ p[Len(p)] = end
    /\ \A j \in 1..(Len(p) - 1) :
          p[j + 1] - p[j] = (IF start <= end THEN 1 ELSE 0 - 1)

\* C13: a body a-b expands to the inclusive run from the resolved start to
\* the resolved end, ascending when start <= end and descending otherwise,
\* of length |start - end| + 1; a body without "-" gives one page.
C13_RangeExpansion ==
    op = "parse" =>
        \A i \in 1..Len(specs) :
            LET tok == tokens[i]
                T == count[TokDoc(tok)]
            IN /\ tok.kind = "range" /\ tok.qual = "none" =>
                     RunsFromTo(specs[i].pages,
                                RefValue(tok.a, T), RefValue(tok.b, T))
               /\ tok.kind = "single" /\ tok.qual = "none" =>
                     Len(specs[i].pages) = 1

C13_Witness ==
    /\ Returned
    /\ \E i \in 1..Len(specs) :
          /\ tokens[i].kind = "range" /\ tokens[i].qual = "none"
          /\ tokens[i].a = End /\ tokens[i].b = Num(1)
          /\ Len(specs[i].pages) = MaxPages
          /\ specs[i].pages[1] = MaxPages
          /\ specs[i].pages[MaxPages] = 1

\* the expansion of a token's body against a document of T pages
Expansion(tok, T) ==
    LET start == RefValue(tok.a, T)
        end == IF tok.kind = "range" THEN RefValue(tok.b, T) ELSE start
    IN [j \in 1..(Abs(start - end) + 1) |->
           IF start <= end THEN start + j - 1 ELSE start - j + 1]

IsEven(p) == p % 2 = 0

IsOdd(p) == p % 2 = 1

\* C14: even keeps exactly the pages p of the expanded body with
\* p % 2 = 0 and odd those with p % 2 = 1, in the order of the expansion.
C14_QualifierFilter ==
    op = "parse" =>
        \A i \in 1..Len(specs) :
            LET tok == tokens[i]
                all == Expansion(tok, count[TokDoc(tok)])
            IN tok.kind \in {"single", "range"} =>
                  /\ tok.qual = "even" => specs[i].pages = SelectSeq(all, IsEven)
                  /\ tok.qual = "odd" => specs[i].pages = SelectSeq(all, IsOdd)

C14_Witness ==
    /\ Returned
    /\ \E i \in 1..Len(specs) :
          /\ tokens[i].kind = "range" /\ tokens[i].qual = "odd"
          /\ tokens[i].a = Num(12) /\ tokens[i].b = Num(1)
          /\ specs[i].pages = <<11, 9, 7, 5, 3, 1>>

\* the documented rotation keywords and their degrees
KeywordDegrees ==
    { <<<<"n", "o", "r", "t", "h">>, 0>>,
      <<<<"e", "a", "s", "t">>, 90>>,
      <<<<"s", "o", "u", "t", "h">>, 180>>,
      <<<<"w", "e", "s", "t">>, 270>>,
      <<<<"l", "e", "f", "t">>, 0 - 90>>,
      <<<<"r", "i", "g", "h", "t">>, 90>>,
      <<<<"d", "o", "w", "n">>, 180>> }

\* the body of a token: what follows its handle
TokenBody(tok) == DropFirst(TokenText(tok), Len(tok.handle))

HandleOnlyToken(tok) ==
    tok.handle # None /\ TokenText(tok) = tok.handle

\* h is the maximal leading run of upper-case letters of the text
\* (None when the text does not begin with one)
MaximalUpperPrefix(h, text) ==
    /\ Len(h) <= Len(text)
    /\ h = SubSeq(text, 1, Len(h))
    /\ \A j \in 1..Len(h) : h[j] \in Upper
    /\ Len(h) < Len(text) => text[Len(h) + 1] \notin Upper

\* C16: a token that is only a registered handle H yields (H, [1..T_H], 0)
\* and does not fail; the handle of every spec is the maximal leading run
\* of upper-case letters of its token.
C16_HandleOnly ==
    op = "parse" =>
        /\ \A i \in 1..Len(specs) :
              /\ MaximalUpperPrefix(specs[i].handle, parts[i])
              /\ HandleOnlyToken(tokens[i]) =>
                    /\ tokens[i].handle \in Readers
                    /\ specs[i] = [handle |-> tokens[i].handle,
                                   pages |-> [j \in 1..count[tokens[i].handle] |-> j],
                                   rotation |-> 0]
        /\ Raised /\ HandleOnlyToken(tokens[part_i]) =>
              tokens[part_i].handle \notin Readers

C16_Witness ==
    /\ Returned
    /\ Len(specs) = 1
    /\ HandleOnlyToken(tokens[1])
    /\ tokens[1].handle = <<"A", "B">>
    /\ specs[1].handle = <<"A", "B">>
    /\ count[<<"A", "B">>] > count[<<"A">>]
    /\ Len(specs[1].pages) = count[<<"A", "B">>]

\* C17: a token whose handle is not in the registry fails with an error
\* naming that handle, whatever its body and whatever the default: no spec
\* is ever produced for such a token.
C17_UnknownHandleFails ==
    op = "parse" =>
        /\ \A i \in 1..Len(specs) :
              tokens[i].handle # None => tokens[i].handle \in Readers
        /\ Raised /\ tokens[part_i].handle \notin Readers \cup {None} =>
              error.handle = tokens[part_i].handle

\* C18: a handle-less token fails when no default document is available
\* (no explicit default, and zero or several registered documents); with
\* exactly one registered document, that document is the default.
C18_NoDefaultFails ==
    op = "parse" =>
        /\ default_reader = None /\ Cardinality(Readers) # 1 =>
              \A i \in 1..Len(specs) : tokens[i].handle # None
        /\ default_reader = None /\ Cardinality(Readers) = 1 =>
              Dflt \in Readers

\* C19: a token whose page body is neither one page reference nor two
\* joined by "-" makes parse fail: no spec is produced for it (a token that
\* is only a handle has no page body).
C19_InvalidBodyFails ==
    op = "parse" =>
        \A i \in 1..Len(specs) :
            \/ HandleOnlyToken(tokens[i])
            \/ tokens[i].kind \in {"single", "range"}

\* C21: every PageSpec returned by parse holds positive page numbers only.
C21_PagesPositive ==
    op = "parse" =>
        \A i \in 1..Len(specs) :
            \A j \in 1..Len(specs[i].pages) : specs[i].pages[j] >= 1

(*************************************************************************)
(* Properties of the page fetch                                          *)
(*************************************************************************)
\* C20: cat and shuffle fail when they fetch a page number outside
\* 1..page_count of its document: neither completes having emitted a page
\* for such a number.
C20_OutOfRangeFails ==
    op \in {"cat", "shuffle"} /\ pc = "done" =>
        \A j \in 1..Len(writer) :
            writer[j].page_num \in 1..count[writer[j].reader]

\* C22: rotating by 0 is a no-op: when cat or shuffle completes, every page
\* emitted for a spec with rotation 0 (north or no keyword) carries the
\* rotation of the source page, 0; when rotate completes, so does every
\* page selected by such specs only.
C22_ZeroRotationNoOp ==
    pc = "done" =>
        /\ op \in {"cat", "shuffle"} /\ page_ranges # <<>> =>
              \A j \in 1..Len(writer) :
                  all_specs[writer[j].spec].rotation = 0 =>
                      writer[j].rotation = 0
        /\ op = "rotate" =>
              \A j \in 1..Len(writer) :
                  (\A i \in SpecsWith(writer[j].page) :
                       all_specs[i].rotation = 0) => writer[j].rotation = 0

(*************************************************************************)
(* utils.py and cli.py: main                                             *)
(*************************************************************************)
MaxInputs == 2

LowerLetters == <<"a", "b", "c", "d", "e", "f", "g", "h", "i", "j", "k", "l",
                  "m", "n", "o", "p", "q", "r", "s", "t", "u", "v", "w", "x",
                  "y", "z">>

\* str.upper() and str.lower() on ASCII text
ToUpper(c) ==
    IF \E i \in 1..26 : LowerLetters[i] = c
    THEN Letters[CHOOSE i \in 1..26 : LowerLetters[i] = c] ELSE c

ToLower(c) ==
    IF \E i \in 1..26 : Letters[i] = c
    THEN LowerLetters[CHOOSE i \in 1..26 : Letters[i] = c] ELSE c

StrUpper(s) == [i \in 1..Len(s) |-> ToUpper(s[i])]

StrLower(s) == [i \in 1..Len(s) |-> ToLower(s[i])]

\* Path(text) for text without redundant separators: only the empty text
\* changes, to the current directory
PathOf(text) == IF text = <<>> THEN <<".">> ELSE text

\* index of the last occurrence of character c in s, 0 when absent
RECURSIVE LastIndexOf(_, _, _)
LastIndexOf(s, c, i) ==
    IF i < 1 THEN 0
    ELSE IF s[i] = c THEN i
    ELSE LastIndexOf(s, c, i - 1)

\* Path.suffix of a path without directories: from the last dot on, empty
\* when there is no dot or the only dot leads the name
Suffix(path) ==
    LET dot == LastIndexOf(path, ".", Len(path))
    IN IF dot <= 1 THEN <<>> ELSE SubSeq(path, dot, Len(path))

\* the files on disk with the number of pages PdfReader finds in each
Disk ==
    { [path |-> <<"x", ".", "p", "d", "f">>, pages |-> 1],
      [path |-> <<"y", ".", "p", "d", "f">>, pages |-> 2],
      [path |-> <<"z", ".", "t", "x", "t">>, pages |-> 1] }

Exists(path) == \E f \in Disk : f.path = path

PagesOf(path) == (CHOOSE f \in Disk : f.path = path).pages

\* validate_pdf_exists: the exception raised, "none" when the path passes
ValidatePdfExists(path) ==
    IF ~Exists(path) THEN "FileNotFoundError"
    ELSE IF StrLower(Suffix(path)) # <<".", "p", "d", "f">> THEN "ValueError"
    ELSE "none"

\* mutant of DictSet: a key already present keeps its first value
DictSet_keepFirst(d, key, path) ==
    IF \E i \in 1..Len(d) : d[i].handle = key
    THEN d
    ELSE Append(d, [handle |-> key, path |-> path])

\* handles[key] = path on a dict kept in insertion order: a key already
\* present keeps its place and takes the new value
DictSet(d, key, path) ==
    IF \E i \in 1..Len(d) : d[i].handle = key
    THEN [i \in 1..Len(d) |->
             IF d[i].handle = key THEN [handle |-> key, path |-> path]
             ELSE d[i]]
    ELSE Append(d, [handle |-> key, path |-> path])

\* input tokens on the command line of cat and shuffle
InputTokens ==
    { <<"A", "=", "x", ".", "p", "d", "f">>,
      <<"B", "=", "y", ".", "p", "d", "f">>,
      <<"a", "=", "y", ".", "p", "d", "f">>,
      <<"x", ".", "p", "d", "f">>,
      <<"y", ".", "p", "d", "f">>,
      <<"m", ".", "p", "d", "f">>,
      <<"z", ".", "t", "x", "t">>,
      <<"A", "=", "B", "=", "x", ".", "p", "d", "f">> }

\* the single input path of burst and rotate
InputPaths ==
    { <<"y", ".", "p", "d", "f">>, <<"m", ".", "p", "d", "f">>,
      <<"z", ".", "t", "x", "t">> }

\* -o patterns of burst: "pg_%d.pdf" and "pg.pdf"
BurstPatterns ==
    { <<"p", "g", "_", "%", "d", ".", "p", "d", "f">>,
      <<"p", "g", ".", "p", "d", "f">> }

\* -r lists on the command line, per operation
CliRanges ==
    [ burst |-> {<<>>},
      cat |-> SeqsUpTo({<<"A">>, <<"B">>, <<"C", "e", "a", "s", "t">>,
                        <<"1", "-", "e", "n", "d">>, <<"A", "x">>}, 1),
      rotate |-> {<<r>> : r \in {<<"1", "e", "a", "s", "t">>,
                                 <<"2", "-", "1", "l", "e", "f", "t">>,
                                 <<"1", "x">>}},
      shuffle |-> {<<r>> : r \in {<<"A">>, <<"A", " ", "A", "1", "l", "e", "f", "t">>,
                                  <<"B">>, <<"1">>, <<"C">>}} ]

InitCli ==
    /\ op \in {"burst", "cat", "rotate", "shuffle"}
    /\ InitNoParse
    /\ cli = IF op \in {"cat", "shuffle"} THEN "inputs" ELSE "validate"
    /\ inputs \in IF op \in {"cat", "shuffle"}
                  THEN SeqsUpTo(InputTokens, MaxInputs) \ {<<>>}
                  ELSE {<<p>> : p \in InputPaths}
    /\ output_pattern \in IF op = "burst" THEN BurstPatterns ELSE {<<>>}
    /\ page_ranges \in CliRanges[op]
    /\ input_i = 1
    /\ handles = <<>>
    /\ files = <<>>
    /\ stderr = <<>>
    /\ exit_status = 0 - 1
    /\ input_files = <<>>
    /\ count = <<>>
    /\ pc = "main"
    /\ ri = 1
    /\ specs = <<>>
    /\ si = 1
    /\ pi = 1
    /\ reader = None
    /\ all_specs = <<>>
    /\ rotation_map = <<>>
    /\ page_iterators = <<>>
    /\ iter_items = <<>>
    /\ scan = <<>>
    /\ writer = <<>>
    /\ rot = <<>>
    /\ output_file = "absent"
    /\ error = NoError

cli_unchanged == <<pvars, op, input_files, count, page_ranges, pc, ri, specs,
                   si, pi, reader, all_specs, rotation_map, page_iterators,
                   iter_items, scan, writer, rot, output_file, error, inputs,
                   output_pattern>>

\* parse_input_files: one turn of "for spec in inputs", or the return
CliInput ==
    /\ cli = "inputs"
    /\ IF input_i > Len(inputs)
       THEN cli' = "validate" /\ UNCHANGED <<input_i, handles, files>>
       ELSE LET spec == inputs[input_i]
                eq == IndexOf(spec, "=", 1)
            IN /\ IF eq > 0
                  THEN LET handle == SubSeq(spec, 1, eq - 1)
                           path == PathOf(DropFirst(spec, eq))
                       IN /\ handles' = DictSet(handles, StrUpper(handle), path)
                          /\ files' = Append(files, path)
                  ELSE /\ files' = Append(files, PathOf(spec))
                       /\ UNCHANGED handles
               /\ input_i' = input_i + 1
               /\ UNCHANGED cli
    /\ UNCHANGED <<cli_unchanged, stderr, exit_status>>

\* mutant of CliError: the exit raised after the message is caught by the
\* last except clause, which prints a second message
CliError_caught(message) ==
    /\ stderr' = Append(Append(stderr, message), "Exception")
    /\ exit_status' = 1
    /\ cli' = "exited"

\* an except clause of main, or the handle check of shuffle: one message
\* on sys.stderr and sys.exit(1)
CliError(message) ==
    /\ stderr' = Append(stderr, message)
    /\ exit_status' = 1
    /\ cli' = "exited"

\* the paths main validates before the operation is called
ToValidate ==
    IF op \in {"cat", "shuffle"} THEN files ELSE <<PathOf(inputs[1])>>

\* "for file in files: validate_pdf_exists(file)": the first failure raises
CliValidate ==
    /\ cli = "validate"
    /\ LET bad == {i \in 1..Len(ToValidate) :
                      ValidatePdfExists(ToValidate[i]) # "none"}
       IN IF bad # {}
          THEN CliError(ValidatePdfExists(
                   ToValidate[CHOOSE i \in bad : \A j \in bad : i <= j]))
          ELSE cli' = "handles" /\ UNCHANGED <<stderr, exit_status>>
    /\ UNCHANGED <<cli_unchanged, input_i, handles, files>>

\* cat: "if not handles:" assign A, B, C, ... to the files in order;
\* shuffle: "if not handles:" print the message and sys.exit(1)
CliHandles ==
    /\ cli = "handles"
    /\ IF op = "cat" /\ handles = <<>>
       THEN /\ handles' = [i \in 1..Len(files) |->
                              [handle |-> <<Letters[i]>>, path |-> files[i]]]
            /\ cli' = "call"
            /\ UNCHANGED <<stderr, exit_status>>
       ELSE IF op = "shuffle" /\ handles = <<>>
       THEN CliError("shuffle requires input files with handles")
            /\ UNCHANGED handles
       ELSE cli' = "call" /\ UNCHANGED <<handles, stderr, exit_status>>
    /\ UNCHANGED <<cli_unchanged, input_i, files>>

\* the operation is called: its readers are opened from the paths
CliCall ==
    /\ cli = "call"
    /\ cli' = "running"
    /\ pc' = "start"
    /\ IF op \in {"cat", "shuffle"}
       THEN /\ input_files' = [i \in 1..Len(handles) |-> handles[i].handle]
            /\ count' = [h \in {handles[i].handle : i \in 1..Len(handles)} |->
                           PagesOf((CHOOSE e \in Range(handles) : e.handle = h).path)]
       ELSE /\ input_files' = <<InputReader>>
            /\ count' = [h \in {InputReader} |-> PagesOf(PathOf(inputs[1]))]
    /\ rot' = [h \in DOMAIN count' |-> [p \in 1..count'[h] |-> 0]]
    /\ UNCHANGED <<pvars, op, page_ranges, ri, specs, si, pi, reader,
                   all_specs, rotation_map, page_iterators, iter_items, scan,
                   writer, output_file, error, inputs, output_pattern,
                   input_i, handles, files, stderr, exit_status>>

\* burst: output directory made, reader loaded
BurstStart ==
    /\ op = "burst" /\ pc = "start"
    /\ pc' = "pages"
    /\ UNCHANGED <<cvars, pvars, op, input_files, count, page_ranges, ri,
                   specs, si, pi, reader, all_specs, rotation_map,
                   page_iterators, iter_items, scan, writer, rot, output_file,
                   error>>

\* burst: one turn of the page loop; "output_pattern % i" raises TypeError
\* when the pattern holds no conversion
BurstPage ==
    /\ op = "burst" /\ pc = "pages"
    /\ IF pi > count[InputReader]
       THEN pc' = "done" /\ UNCHANGED <<pi, writer, output_file, error>>
       ELSE IF IndexOf(output_pattern, "%", 1) = 0
       THEN Fail([kind |-> "TypeError", handle |-> None])
            /\ UNCHANGED <<pi, writer, output_file>>
       ELSE /\ writer' = Append(writer, Added(InputReader, pi, pi, rot, 0, pi))
            /\ output_file' = "written"
            /\ pi' = pi + 1
            /\ UNCHANGED <<pc, error>>
    /\ UNCHANGED <<cvars, pvars, op, input_files, count, page_ranges, ri,
                   specs, si, reader, all_specs, rotation_map,
                   page_iterators, iter_items, scan, rot>>

\* the exception class main sees for an error of the operation
ExceptionClass(e) ==
    IF e.kind \in {"KeyError", "IndexError", "TypeError"} THEN "Exception"
    ELSE "ValueError"

\* the operation has returned or raised: main prints the success line and
\* returns, or an except clause prints one message and exits with 1
CliExit ==
    /\ cli = "running" /\ pc \in {"done", "error"}
    /\ IF pc = "done"
       THEN cli' = "exited" /\ exit_status' = 0 /\ UNCHANGED stderr
       ELSE CliError(ExceptionClass(error))
    /\ UNCHANGED <<cli_unchanged, input_i, handles, files>>

NextCli ==
    \/ CliInput \/ CliValidate \/ CliHandles \/ CliCall \/ CliExit
    \/ BurstStart \/ BurstPage
    \/ CatStart \/ CatMerge \/ CatParse \/ CatSelectReader \/ CatAddPage
    \/ RotateStart \/ RotateParse \/ RotatePage
    \/ ShuffleStart \/ ShuffleParse \/ ShuffleMakeIterator
    \/ ShuffleWhile \/ ShuffleVisit
    \/ WriteOutput

SpecCli == InitCli /\ [][NextCli]_vars

(*************************************************************************)
(* Properties of the command line                                        *)
(*************************************************************************)
\* the input token is written HANDLE=path
Declares(t) == \E k \in 1..Len(t) : t[k] = "="

\* the position of the first "=" of the token
FirstEq(t) ==
    CHOOSE k \in 1..Len(t) : t[k] = "=" /\ \A j \in 1..(k - 1) : t[j] # "="

\* the handle the token declares, in upper case
DeclaredHandle(t) == StrUpper(SubSeq(t, 1, FirstEq(t) - 1))

\* the path of the token
TokenPath(t) ==
    PathOf(IF Declares(t) THEN SubSeq(t, FirstEq(t) + 1, Len(t)) ELSE t)

\* parse_input_files has returned
InputsParsed == op \in {"cat", "shuffle"} /\ cli = "validate"

\* the entries of the handle map as handle/path pairs
Entries(d) == {<<d[i].handle, d[i].path>> : i \in 1..Len(d)}

\* C23 as stated: the file list holds the path of every token in input
\* order, and the handle map holds exactly the HANDLE=path tokens, split at
\* the first "=" and keyed by the upper-cased handle.
C23_AsStated ==
    InputsParsed =>
        /\ files = [i \in 1..Len(inputs) |-> TokenPath(inputs[i])]
        /\ Entries(handles) =
              {<<DeclaredHandle(inputs[i]), TokenPath(inputs[i])>> :
                  i \in {k \in 1..Len(inputs) : Declares(inputs[k])}}

\* C23: the file list holds the path of every token in input order; the
\* keys of the handle map are exactly the upper-cased handles of the
\* HANDLE=path tokens, split at the first "=", and each key maps to the
\* path of the last token that declares it.
C23_ParseInputFiles ==
    InputsParsed =>
        LET declaring == {k \in 1..Len(inputs) : Declares(inputs[k])}
        IN /\ files = [i \in 1..Len(inputs) |-> TokenPath(inputs[i])]
           /\ {handles[j].handle : j \in 1..Len(handles)} =
                 {DeclaredHandle(inputs[k]) : k \in declaring}
           /\ \A j \in 1..Len(handles) : \A i \in 1..Len(handles) :
                 handles[i].handle = handles[j].handle => i = j
           /\ \A j \in 1..Len(handles) :
                 \E k \in declaring :
                    /\ DeclaredHandle(inputs[k]) = handles[j].handle
                    /\ TokenPath(inputs[k]) = handles[j].path
                    /\ \A l \in declaring :
                          DeclaredHandle(inputs[l]) = handles[j].handle => l <= k

C23_Witness ==
    /\ InputsParsed
    /\ inputs = << <<"A", "=", "x", ".", "p", "d", "f">>,
                   <<"a", "=", "y", ".", "p", "d", "f">> >>
    /\ handles = <<[handle |-> <<"A">>, path |-> <<"y", ".", "p", "d", "f">>]>>
    /\ Len(files) = 2

\* C24: main ends with status 1 after exactly one error message whenever
\* validation or the operation reports an error, and with status 0, and no
\* error message, only when the operation completed and wrote its output.
C24_ExitStatus ==
    cli # "none" =>
        /\ cli # "exited" => exit_status = 0 - 1 /\ stderr = <<>>
        /\ cli = "exited" =>
              /\ exit_status \in {0, 1}
              /\ exit_status = 0 <=> pc = "done" /\ output_file = "written"
              /\ exit_status = 0 => stderr = <<>>
              /\ exit_status = 1 => Len(stderr) = 1 /\ pc \in {"main", "error"}
        /\ pc = "error" /\ cli = "exited" => stderr = <<ExceptionClass(error)>>

C24_Witness ==
    /\ cli = "exited"
    /\ op = "cat" /\ pc = "error" /\ error.kind = "KeyError"
    /\ exit_status = 1
    /\ stderr = <<"Exception">>
    /\ output_file = "absent"

(*************************************************************************)
(* Properties of the shuffle queues                                      *)
(*************************************************************************)
\* the queue of spec q is live: its iterator is in page_iterators
Live(q) == \E i \in 1..Len(page_iterators) : page_iterators[i] = q

\* the round-robin loop is visiting queue q
Visiting(q) == pc = "visit" /\ pi <= Len(scan) /\ scan[pi] = q

\* the round-robin loop has been entered
InLoop == op = "shuffle" /\ pc \in {"while", "visit", "write", "done"}

\* a step of the loop treats every queue as the state machine says: a
\* queue leaves the live state only on a visit that finds it empty, that
\* visit emits nothing, a visit of an empty queue always exhausts it, and
\* an exhausted queue is not made live again
QueueStep ==
    InLoop =>
        \A q \in 1..Len(iter_items) :
            /\ (Live(q) /\ ~Live(q)') =>
                  Visiting(q) /\ iter_items[q] = <<>> /\ writer' = writer
            /\ (Visiting(q) /\ iter_items[q] = <<>>) => ~Live(q)'
            /\ (Visiting(q) /\ iter_items[q] # <<>> /\ pc' # "error") =>
                  Live(q)' /\ Len(writer') = Len(writer) + 1
            /\ ~Live(q) => ~Live(q)'

\* C25: a queue goes from live to exhausted exactly when a pop finds it
\* empty, emitting nothing on that visit; an exhausted queue is never
\* visited or made live again; the loop ends only with every queue
\* exhausted and empty.
C25_QueueStateMachine ==
    /\ [][QueueStep]_vars
    /\ [](InLoop =>
            /\ \A q \in 1..Len(iter_items) : Visiting(q) => Live(q)
            /\ pc \in {"write", "done"} =>
                  \A q \in 1..Len(iter_items) :
                      ~Live(q) /\ iter_items[q] = <<>>)

C25_Witness ==
    /\ op = "shuffle" /\ pc = "visit"
    /\ Len(iter_items) >= 2
    /\ \E q \in 1..Len(iter_items) :
          ~Live(q) /\ all_specs[q].pages = <<>>
    /\ \E q \in 1..Len(iter_items) :
          Visiting(q) /\ iter_items[q] = <<>> /\ all_specs[q].pages # <<>>

(*************************************************************************)
(* Properties of error handling                                          *)
(*************************************************************************)
\* the registry and the default of the parser the operation builds
OpReaders == IF op = "rotate" THEN {} ELSE Readers

OpDefault ==
    IF op = "rotate" THEN ParserDefault({}, InputReader)
    ELSE IF op = "cat" THEN ParserDefault(Readers, CatDefaultReader)
    ELSE ParserDefault(Readers, None)

\* the parse of one token by the operation's parser
OpParse(t) == ParseSingle(t, OpReaders, OpDefault, count)

\* the tokens of range strings from..to, left to right
RECURSIVE TokensOf(_, _)
TokensOf(from, to) ==
    IF from > to THEN <<>>
    ELSE Split(page_ranges[from]) \o TokensOf(from + 1, to)

\* the error a token stands for when it is taken alone: its parse error,
\* else the error of selecting its reader, else that of fetching its pages
Offence(t) ==
    LET res == OpParse(t) IN
    IF ~res.ok THEN res.err
    ELSE IF op = "rotate" THEN NoError
    ELSE LET sel == IF op = "cat" THEN CatReaderFor(res.val)
                    ELSE ShuffleReaderFor(res.val)
         IN IF ~sel.ok THEN sel.err
            ELSE IF \E j \in 1..Len(res.val.pages) :
                       ~PagesGetItem(count[sel.val], res.val.pages[j] - 1).ok
                 THEN [kind |-> "IndexError", handle |-> None]
                 ELSE NoError

Failed == op \in {"cat", "rotate", "shuffle"} /\ pc = "error"

\* C26 as stated: when the range tokens hold offending tokens, the
\* operation aborts with the error of the leftmost offending token.
C26_AsStated ==
    Failed =>
        LET all == TokensOf(1, Len(page_ranges))
            bad == {i \in 1..Len(all) : Offence(all[i]) # NoError}
        IN /\ bad # {}
           /\ error = Offence(all[CHOOSE i \in bad : \A j \in bad : i <= j])

ParseErrors == {"InvalidPageToken", "NoReader", "UnknownHandle"}

\* C26: a parse error is the error of the leftmost token that fails to
\* parse in the range string being parsed, all tokens of the range strings
\* before it parsed, and no token of that string or to its right has added
\* a spec; any other error arises only after every token parsed so far
\* succeeded, and in shuffle it is the error of the leftmost spec the
\* operation cannot serve.
C26_FailFast ==
    Failed =>
        /\ \A i \in 1..Len(TokensOf(1, ri - 1)) :
              /\ OpParse(TokensOf(1, ri - 1)[i]).ok
              /\ all_specs[i] = OpParse(TokensOf(1, ri - 1)[i]).val
        /\ Len(all_specs) = Len(TokensOf(1, ri - 1))
        /\ error.kind \in ParseErrors =>
              /\ ri <= Len(page_ranges)
              /\ LET toks == Split(page_ranges[ri])
                     bad == {i \in 1..Len(toks) : ~OpParse(toks[i]).ok}
                 IN /\ bad # {}
                    /\ error = OpParse(toks[CHOOSE i \in bad :
                                                \A j \in bad : i <= j]).err
        /\ error.kind \notin ParseErrors /\ op = "shuffle" =>
              /\ ri > Len(page_ranges)
              /\ \/ error.kind = "IndexError"
                 \/ /\ error = ShuffleReaderFor(all_specs[si]).err
                    /\ \A i \in 1..(si - 1) : ShuffleReaderFor(all_specs[i]).ok

C26_Witness ==
    /\ Failed
    /\ ri = 1 /\ Len(page_ranges) >= 2
    /\ Len(Split(page_ranges[1])) = 2
    /\ ~OpParse(Split(page_ranges[1])[1]).ok
    /\ ~OpParse(Split(page_ranges[1])[2]).ok
    /\ OpParse(Split(page_ranges[1])[1]).err # OpParse(Split(page_ranges[1])[2]).err
    /\ error = OpParse(Split(page_ranges[1])[1]).err

\* the token carries both a qualifier and a rotation keyword
BothSuffixes(tok) ==
    tok.kind \in {"single", "range"} /\ tok.qual # "none" /\ tok.rot # 0

\* C27: a token with a qualifier and a rotation keyword is accepted only
\* when the qualifier stands before the rotation keyword: it then yields the
\* filtered pages of its body with the keyword's rotation and fails only for
\* want of a document; with the rotation keyword before the qualifier it
\* yields no spec and, its document known, fails as an invalid page token.
C27_SuffixOrder ==
    op = "parse" =>
        /\ \A i \in 1..Len(specs) :
              BothSuffixes(tokens[i]) =>
                  /\ ~tokens[i].swapped
                  /\ specs[i].rotation = ROTATIONS[tokens[i].rot].deg
                  /\ specs[i].pages =
                        LET all == Expansion(tokens[i], count[TokDoc(tokens[i])])
                        IN IF tokens[i].qual = "even" THEN SelectSeq(all, IsEven)
                           ELSE SelectSeq(all, IsOdd)
        /\ Raised /\ BothSuffixes(tokens[part_i]) =>
              /\ ~Resolvable(tokens[part_i])
              /\ tokens[part_i].swapped /\ TokDoc(tokens[part_i]) \in DOMAIN count =>
                    error = [kind |-> "InvalidPageToken", handle |-> None]
        /\ pc \in {"done", "error"} /\ tokens # <<>>
              /\ BothSuffixes(tokens[Len(tokens)]) /\ tokens[Len(tokens)].swapped =>
              Raised

\* "12-1evensouth" has been parsed into the even pages of 12..1, rotation 180
C27_Witness ==
    /\ Returned
    /\ Len(tokens) = 1
    /\ tokens[1].kind = "range" /\ tokens[1].a = Num(12) /\ tokens[1].b = Num(1)
    /\ tokens[1].qual = "even" /\ tokens[1].rot = 2 /\ ~tokens[1].swapped
    /\ Len(specs) = 1
    /\ specs[1].pages = <<12, 10, 8, 6, 4, 2>>
    /\ specs[1].rotation = 90

\* "1southeven" and its like have failed
C27_WitnessSwapped ==
    /\ Raised
    /\ Len(tokens) = 1 /\ tokens[1].swapped
    /\ error.kind = "InvalidPageToken"

\* the sequence in reverse order
Reverse(s) == [j \in 1..Len(s) |-> s[Len(s) + 1 - j]]

\* the token with the two ends of its range exchanged
Flip(tok) == [tok EXCEPT !.a = tok.b, !.b = tok.a]

\* the token "r1-rend", "1-end" and "r<n>" for the document of the token
ReverseAll(tok) == [tok EXCEPT !.kind = "range", !.a = R(1), !.b = Rend]

ForwardAll(tok) == [tok EXCEPT !.kind = "range", !.a = Num(1), !.b = End]

FromEnd(tok, n) == [tok EXCEPT !.kind = "single", !.a = R(n), !.b = Num(0)]

\* C28: the page list of b-a is the reverse of the page list of a-b, with
\* or without an even or odd qualifier; r1-rend is the reverse of 1-end, and
\* r<N> is the N-th page counted from the end.
C28_ReversalSymmetry ==
    op = "parse" =>
        \A i \in 1..Len(specs) :
            LET tok == tokens[i] IN
            /\ tok.kind = "range" =>
                  /\ Alone(Flip(tok)).ok
                  /\ Alone(Flip(tok)).val.pages = Reverse(specs[i].pages)
            /\ tok.kind \in {"single", "range"} =>
                  /\ Alone(ReverseAll(tok)).ok /\ Alone(ForwardAll(tok)).ok
                  /\ Alone(ReverseAll(tok)).val.pages =
                        Reverse(Alone(ForwardAll(tok)).val.pages)
                  /\ \A n \in 1..count[TokDoc(tok)] :
                        LET all == Alone(ForwardAll([tok EXCEPT !.qual = "none"])).val.pages
                        IN Alone(FromEnd([tok EXCEPT !.qual = "none"], n)).val.pages
                              = <<Reverse(all)[n]>>

C28_Witness ==
    /\ Returned
    /\ \E i \in 1..Len(specs) :
          /\ tokens[i].kind = "range" /\ tokens[i].qual = "even"
          /\ tokens[i].a = Num(1) /\ tokens[i].b = Num(12)
          /\ specs[i].pages = <<2, 4, 6, 8, 10, 12>>
          /\ Alone(Flip(tokens[i])).val.pages = <<12, 10, 8, 6, 4, 2>>

(*************************************************************************)
(* Properties of rotate on page numbers outside the document             *)
(*************************************************************************)
\* the page numbers of the parsed specs that lie outside 1..T
Outside ==
    {p \in UNION {Range(all_specs[i].pages) : i \in 1..Len(all_specs)} :
        p < 1 \/ p > count[InputReader]}

\* C29: in rotate a spec page number outside 1..T raises nothing and
\* changes nothing: rotate fails only when a range string fails to parse,
\* the number is stored in the rotation map, and the output is the T source
\* pages in order, each with the rotation of the last spec that contains
\* it and unrotated when none does.
C29_RotateOutsidePages ==
    op = "rotate" =>
        /\ pc = "error" =>
              /\ ri <= Len(page_ranges)
              /\ ~Parse(page_ranges[ri], {}, InputReader, count).ok
              /\ error = Parse(page_ranges[ri], {}, InputReader, count).err
        /\ pc \in {"pages", "write", "done"} =>
              /\ Outside \subseteq DOMAIN rotation_map
              /\ \A p \in DOMAIN rotation_map : rotation_map[p] = LastRotation(p)
        /\ pc = "done" =>
              /\ output_file = "written"
              /\ Len(writer) = count[InputReader]
              /\ \A i \in 1..Len(writer) :
                    /\ writer[i].reader = InputReader
                    /\ writer[i].page = i
                    /\ writer[i].rotation = LastRotation(i)

\* a completed rotate whose specs name a page outside the document with a
\* rotation, the output holding a rotated and an unrotated page
C29_Witness ==
    /\ op = "rotate" /\ pc = "done"
    /\ \E p \in Outside : rotation_map[p] = 90
    /\ \E i \in 1..Len(writer) : writer[i].rotation # 0
    /\ \E i \in 1..Len(writer) : writer[i].rotation = 0

(*************************************************************************)
(* Properties of the cat command line                                    *)
(*************************************************************************)
\* main has called cat
CatCalled == op = "cat" /\ cli = "running"

\* the number of pages of the first n input files
RECURSIVE InputPages(_)
InputPages(n) ==
    IF n = 0 THEN 0 ELSE InputPages(n - 1) + PagesOf(TokenPath(inputs[n]))

\* C30: when main calls cat, every input file of the command line is
\* registered under a handle, its declared handle for HANDLE=path, and cat
\* without ranges merges the pages of every input file.
C30_EveryInputRegistered ==
    CatCalled =>
        /\ \A i \in 1..Len(inputs) :
              \E j \in 1..Len(handles) :
                 /\ handles[j].path = TokenPath(inputs[i])
                 /\ Declares(inputs[i]) =>
                       handles[j].handle = DeclaredHandle(inputs[i])
        /\ pc = "done" /\ page_ranges = <<>> =>
              Len(writer) = InputPages(Len(inputs))

====
